---- MODULE Spec2Model ----
(***************************************************************************)
(* Model of the service registry (internal/discovery/registry.go) and of   *)
(* the load-balancing selector (internal/loadbalancer/balancer.go) of the  *)
(* distributed object store.                                               *)
(*                                                                         *)
(* Time is counted in seconds.  Every registry operation runs under the    *)
(* registry's mutex, so each operation is one atomic action.  A            *)
(* ServiceInfo is modelled by the fields the registry reads or writes      *)
(* (ID, Name, Health, RegisterTime, LastSeen); Address, Port, Tags and     *)
(* Metadata are carried along untouched by every operation and are left    *)
(* out.                                                                    *)
(***************************************************************************)
EXTENDS Integers, Sequences, FiniteSets, TLC

VARIABLES
    now,        \* the clock, in seconds
    services,   \* Registry.services: id -> ServiceInfo
    nextTick,   \* time of the next tick of the health-check ticker
    calls,      \* number of Register/Deregister/UpdateHealth calls made
    algorithm,  \* BalancerManager.algorithm
    stats,      \* BalancerManager.stats: id -> ServiceStats
    rrCounter,  \* BalancerManager.rrCounter
    lastOp,     \* the most recent call and what it returned
    rrList,     \* the stable candidate list of a run of round-robin calls
    rrTaken,    \* caller -> counter value its atomic add returned (0: none)
    visits,     \* position in rrList -> number of calls that returned it
    pairs,      \* Increment/Decrement pairs: counts before them, open pairs
    requests,   \* handleObjects invocations: request -> position and results
    snapshot,   \* the map a GetStats call returned, and what it held then
    race,       \* goroutines inside the selector's lock, step by step
    locate,     \* Locate calls, their reply queues and the data nodes
    api,        \* objects.Handler of the API node, the files of the data nodes
    heartbeat,  \* the data node's StartHeartbeat loop and its broker
    consumer,   \* the data node's StartLocate loop and its broker
    broker      \* exchanges and bindings seen by RabbitMQ.Publish and Bind

regVars == <<now, services, nextTick, calls>>
lbVars == <<algorithm, stats, rrCounter>>
rrVars == <<rrList, rrTaken, visits>>
netVars == <<api, heartbeat, consumer, broker>>
extVars == <<rrVars, pairs, requests, snapshot, race, locate, netVars>>

\* the state each component leaves alone
exceptRR == <<pairs, requests, snapshot, race, locate, netVars>>
exceptPairs == <<rrVars, requests, snapshot, race, locate, netVars>>
exceptRequests == <<rrVars, pairs, snapshot, race, locate, netVars>>
exceptSnapshot == <<rrVars, pairs, requests, race, locate, netVars>>
exceptRace == <<rrVars, pairs, requests, snapshot, locate, netVars>>
exceptLocate == <<rrVars, pairs, requests, snapshot, race, netVars>>
exceptApi == <<rrVars, pairs, requests, snapshot, race, heartbeat, consumer,
               broker>>
exceptHeartbeat == <<rrVars, pairs, requests, snapshot, race, locate, api,
                     consumer, broker>>
exceptConsumer == <<rrVars, pairs, requests, snapshot, race, locate, api,
                    heartbeat, broker>>
exceptBroker == <<rrVars, pairs, requests, snapshot, race, locate, api,
                  heartbeat, consumer>>
vars == <<now, services, nextTick, calls, algorithm, stats, rrCounter, lastOp,
          extVars>>

----------------------------------------------------------------------------
(* Bounds of the model *)

\* the clock moves in steps of Quantum seconds and stops at MaxTime
Quantum == 15
MaxTime == 150

\* at most MaxCalls Register/Deregister/UpdateHealth calls in one behaviour
MaxCalls == 3

\* instance identities a caller may pass ("" is the empty identity)
IDs == {"", "a", "b"}

\* logical service names a caller may pass
Names == {"dataserver", "apiserver"}

----------------------------------------------------------------------------
(* Program constants *)

HealthStatusHealthy == "healthy"
HealthStatusUnhealthy == "unhealthy"
HealthStatusUnknown == "unknown"

HealthStatus == {HealthStatusHealthy, HealthStatusUnhealthy, HealthStatusUnknown}

\* NewRegistry: healthCheckInterval = 30s, serviceTimeout = 60s
HealthCheckInterval == 30
ServiceTimeout == 60

----------------------------------------------------------------------------
(* Helpers *)

\* health of id before an operation, "absent" when the map has no such key
HealthOf(svc, id) == IF id \in DOMAIN svc THEN svc[id].Health ELSE "absent"

\* the record of the most recent call: operation, arguments, error result,
\* returned ids (out), ids logged as auto-deregistered (del), and the health
\* the target id had when the call started (was)
Op(op, id, arg, err, was, out, del) ==
    [op |-> op, id |-> id, arg |-> arg, err |-> err, was |-> was,
     out |-> out, del |-> del]

\* now.Sub(service.LastSeen)
Age(s, t) == t - s.LastSeen

----------------------------------------------------------------------------
(* Registry operations *)

\* Register that keeps the health of an id it already holds
RegisterStoreKeepHealth(svc, id, name, tReg, tSeen) ==
    [k \in DOMAIN svc \cup {id} |->
        IF k = id
        THEN [ID |-> id, Name |-> name,
              Health |-> IF id \in DOMAIN svc THEN svc[id].Health
                         ELSE HealthStatusHealthy,
              RegisterTime |-> tReg, LastSeen |-> tSeen]
        ELSE svc[k]]

\* Register that keeps the record of an id it already holds
RegisterStoreKeepExisting(svc, id, name, tReg, tSeen) ==
    [k \in DOMAIN svc \cup {id} |->
        IF k = id /\ id \notin DOMAIN svc
        THEN [ID |-> id, Name |-> name, Health |-> HealthStatusHealthy,
              RegisterTime |-> tReg, LastSeen |-> tSeen]
        ELSE svc[k]]

\* the map after Register stored `service` stamped with the two time.Now()
\* readings tReg (RegisterTime) and tSeen (LastSeen)
RegisterStore(svc, id, name, tReg, tSeen) ==
    [k \in DOMAIN svc \cup {id} |->
        IF k = id
        THEN [ID |-> id, Name |-> name, Health |-> HealthStatusHealthy,
              RegisterTime |-> tReg, LastSeen |-> tSeen]
        ELSE svc[k]]

\* Register without the test for an empty id
RegisterNoCheck(id, name) ==
    /\ calls < MaxCalls
    /\ calls' = calls + 1
    /\ services' = [k \in DOMAIN services \cup {id} |->
                      IF k = id
                      THEN [ID |-> id, Name |-> name, Health |-> HealthStatusHealthy,
                            RegisterTime |-> now, LastSeen |-> now]
                      ELSE services[k]]
    /\ lastOp' = Op("Register", id, name, FALSE, HealthOf(services, id), {}, {})
    /\ UNCHANGED <<now, nextTick, lbVars, extVars>>

\* Register(service): both time.Now() calls read the clock at `now`
Register(id, name) ==
    /\ calls < MaxCalls
    /\ calls' = calls + 1
    /\ IF id = ""
       THEN /\ lastOp' = Op("Register", id, name, TRUE, "absent", {}, {})
            /\ UNCHANGED services
       ELSE /\ services' = RegisterStore(services, id, name, now, now)
            /\ lastOp' = Op("Register", id, name, FALSE, HealthOf(services, id), {}, {})
    /\ UNCHANGED <<now, nextTick, lbVars, extVars>>

\* the map after a successful Deregister
DeregisterDelete(svc, id) == [k \in DOMAIN svc \ {id} |-> svc[k]]

Deregister(id) ==
    /\ calls < MaxCalls
    /\ calls' = calls + 1
    /\ IF id \in DOMAIN services
       THEN /\ services' = DeregisterDelete(services, id)
            /\ lastOp' = Op("Deregister", id, "", FALSE, HealthOf(services, id), {}, {})
       ELSE /\ lastOp' = Op("Deregister", id, "", TRUE, "absent", {}, {})
            /\ UNCHANGED services
    /\ UNCHANGED <<now, nextTick, lbVars, extVars>>

\* Discover without the health test
DiscoverResultAnyHealth(svc, serviceName) ==
    {id \in DOMAIN svc : svc[id].Name = serviceName}

\* the ids Discover(serviceName) returns
DiscoverResult(svc, serviceName) ==
    {id \in DOMAIN svc : svc[id].Name = serviceName
                         /\ svc[id].Health = HealthStatusHealthy}

Discover(serviceName) ==
    /\ lastOp' = Op("Discover", "", serviceName, FALSE, "absent",
                    DiscoverResult(services, serviceName), {})
    /\ UNCHANGED <<regVars, lbVars, extVars>>

\* UpdateHealth that stamps RegisterTime instead of LastSeen
UpdateHealthEntryWrongStamp(s, status, t) ==
    [s EXCEPT !.Health = status, !.RegisterTime = t]

\* the entry after a successful UpdateHealth at time t
UpdateHealthEntry(s, status, t) == [s EXCEPT !.Health = status, !.LastSeen = t]

UpdateHealth(id, status) ==
    /\ calls < MaxCalls
    /\ calls' = calls + 1
    /\ IF id \in DOMAIN services
       THEN /\ services' = [services EXCEPT ![id] = UpdateHealthEntry(@, status, now)]
            /\ lastOp' = Op("UpdateHealth", id, status, FALSE, HealthOf(services, id), {}, {})
       ELSE /\ lastOp' = Op("UpdateHealth", id, status, TRUE, "absent", {}, {})
            /\ UNCHANGED services
    /\ UNCHANGED <<now, nextTick, lbVars, extVars>>

\* the keys of the copy GetAllServices returns
GetAllServicesResult(svc) == DOMAIN svc

GetAllServices ==
    /\ lastOp' = Op("GetAllServices", "", "", FALSE, "absent",
                    GetAllServicesResult(services), {})
    /\ UNCHANGED <<regVars, lbVars, extVars>>

\* StartHealthCheck at time t: the ticker's first tick is one interval later
StartHealthCheck(t) == t + HealthCheckInterval

\* the first test taken at the timeout instead of after it
ExpiredAtTimeout(s, t) == Age(s, t) >= ServiceTimeout

\* the second test with three timeouts instead of two
LongExpiredAfterThree(s, t) == Age(s, t) > ServiceTimeout * 3

\* the second test taken at twice the timeout instead of after it
LongExpiredAtTwice(s, t) == Age(s, t) >= ServiceTimeout * 2

\* the sweep's tests on one entry at time t
Expired(s, t) == Age(s, t) > ServiceTimeout
LongExpired(s, t) == Age(s, t) > ServiceTimeout * 2

\* the map after one run of checkExpiredServices at time t
SweepResult(svc, t) ==
    [k \in {id \in DOMAIN svc : ~(Expired(svc[id], t) /\ LongExpired(svc[id], t))} |->
        IF Expired(svc[k], t)
        THEN [svc[k] EXCEPT !.Health = HealthStatusUnhealthy]
        ELSE svc[k]]

\* one tick of the health-check goroutine; out and del are the ids of the
\* two log lines ("marked as unhealthy", "auto-deregistered")
checkExpiredServices ==
    /\ now >= nextTick
    /\ services' = SweepResult(services, now)
    /\ nextTick' = nextTick + HealthCheckInterval
    /\ lastOp' = Op("Sweep", "", "", FALSE, "absent",
                    {id \in DOMAIN services : Expired(services[id], now)},
                    {id \in DOMAIN services : Expired(services[id], now)
                                              /\ LongExpired(services[id], now)})
    /\ UNCHANGED <<now, calls, lbVars, extVars>>

\* the clock moves on; a tick that is due is served before time passes
Advance ==
    /\ now + Quantum <= MaxTime
    /\ now < nextTick
    /\ now' = now + Quantum
    /\ lastOp' = Op("Advance", "", "", FALSE, "absent", {}, {})
    /\ UNCHANGED <<services, nextTick, calls, lbVars, extVars>>

----------------------------------------------------------------------------
(* Load-balancing selector (BalancerManager) *)

AlgorithmRoundRobin == "round_robin"
AlgorithmRandom == "random"
AlgorithmWeighted == "weighted"
AlgorithmLeastConn == "least_conn"

\* the algorithm names a configuration may carry; "other" is a name that
\* none of the four constants matches
AlgorithmNames == {AlgorithmRoundRobin, AlgorithmRandom, AlgorithmWeighted,
                   AlgorithmLeastConn, "other"}

\* ids of the instances handed to the selector
StatIDs == {"a", "b"}

\* bounds: length of a candidate list, requests counted over all instances,
\* open connections counted per instance, value of the round-robin counter
MaxCandidates == 2
MaxRequests == 3
MaxConns == 1
MaxCounter == 3

\* response times passed to UpdateStats, in nanoseconds
Durations == {0, 2500001}

\* nanoseconds in a millisecond (time.Duration.Milliseconds)
NanosPerMilli == 1000000

\* the candidate lists passed to Select: every list of at most MaxCandidates
\* instances, the empty list included
CandidateLists ==
    UNION {[1..n -> StatIDs] : n \in 0..MaxCandidates}

\* &ServiceStats{} as getOrCreateStats creates it
NewStats ==
    [TotalRequests |-> 0, SuccessRequests |-> 0, FailedRequests |-> 0,
     AvgResponseTime |-> 0, ActiveConns |-> 0]

\* the stats map after getOrCreateStats(serviceID)
getOrCreateStats(st, serviceID) ==
    IF serviceID \in DOMAIN st
    THEN st
    ELSE [k \in DOMAIN st \cup {serviceID} |->
            IF k = serviceID THEN NewStats ELSE st[k]]

\* the entry getOrCreateStats(serviceID) returns
StatsOf(st, serviceID) == getOrCreateStats(st, serviceID)[serviceID]

\* the stats map after getOrCreateStats ran for every candidate of a list
RECURSIVE CreateAll(_, _, _)
CreateAll(st, cands, i) ==
    IF i > Len(cands) THEN st
    ELSE CreateAll(getOrCreateStats(st, cands[i]), cands, i + 1)

\* Duration.Milliseconds(): integer milliseconds of a non-negative duration
Milliseconds(d) == d \div NanosPerMilli

\* score = successRate*0.7 + responseTimeScore*0.3 as the exact fraction
\* <<numerator, denominator>>:
\*   7*Success/(10*(Total+1)) + 3/(10*(ms+1))
Score(s) ==
    LET ms == Milliseconds(s.AvgResponseTime)
    IN  <<7 * s.SuccessRequests * (ms + 1) + 3 * (s.TotalRequests + 1),
          10 * (s.TotalRequests + 1) * (ms + 1)>>

\* p >= q for fractions with positive denominators
FracGreaterOrEqual(p, q) == p[1] * q[2] >= q[1] * p[2]

\* p > q for fractions with positive denominators
FracGreater(p, q) == p[1] * q[2] > q[1] * p[2]

\* an index taken from half the counter value
RoundRobinIndexHalf(counter, n) == (counter \div 2) % n

\* selectRoundRobin: index of the counter value after the atomic add
RoundRobinIndex(counter, n) == counter % n

\* a random index that may be one past the end of the list
RandomIndexesPastEnd(n) == 0..n

\* selectRandom: the indexes rand.Intn(n) may return
RandomIndexes(n) == 0..(n - 1)

\* the loop of selectWeighted from candidate i on; best is the 1-based
\* position of bestService (0 for nil) and bestScore its score
RECURSIVE WeightedLoop(_, _, _, _, _)
WeightedLoop(st, cands, i, best, bestScore) ==
    IF i > Len(cands) THEN best
    ELSE LET score == Score(StatsOf(st, cands[i]))
         IN  IF FracGreater(score, bestScore)
             THEN WeightedLoop(st, cands, i + 1, i, score)
             ELSE WeightedLoop(st, cands, i + 1, best, bestScore)

\* selectWeighted: 0-based index of the instance returned
WeightedIndex(st, cands) ==
    LET best == WeightedLoop(st, cands, 1, 0, <<-1, 1>>)
    IN  IF best = 0 THEN 0 ELSE best - 1

\* a candidate with as few connections as the minimum replaces it
FewerConnsOrEqual(conns, minConns) == minConns = -1 \/ conns <= minConns

\* minConns == -1 || stats.ActiveConns < minConns
FewerConns(conns, minConns) == minConns = -1 \/ conns < minConns

\* the loop of selectLeastConn from candidate i on
RECURSIVE LeastConnLoop(_, _, _, _, _)
LeastConnLoop(st, cands, i, best, minConns) ==
    IF i > Len(cands) THEN best
    ELSE LET conns == StatsOf(st, cands[i]).ActiveConns
         IN  IF FewerConns(conns, minConns)
             THEN LeastConnLoop(st, cands, i + 1, i, conns)
             ELSE LeastConnLoop(st, cands, i + 1, best, minConns)

\* selectLeastConn: 0-based index of the instance returned
LeastConnIndex(st, cands) ==
    LET best == LeastConnLoop(st, cands, 1, 0, -1)
    IN  IF best = 0 THEN 0 ELSE best - 1

\* what Select returns for 0-based index idx of a candidate list: the
\* instance at that index; an index outside the list is a run-time panic
Selected(cands, idx) ==
    IF idx + 1 \in DOMAIN cands
    THEN Op("Select", cands[idx + 1], cands, FALSE, "returned", {idx}, {})
    ELSE Op("Select", "", cands, FALSE, "panic", {idx}, {})

\* what Select can do on a non-empty list under algorithm alg: the 0-based
\* index returned, the stats map and the counter it leaves
SelectOutcomes(alg, st, counter, cands) ==
    CASE alg = AlgorithmRoundRobin ->
           {[idx |-> RoundRobinIndex(counter + 1, Len(cands)),
             stats |-> st, counter |-> counter + 1]}
      [] alg = AlgorithmWeighted ->
           {[idx |-> WeightedIndex(st, cands),
             stats |-> CreateAll(st, cands, 1), counter |-> counter]}
      [] alg = AlgorithmLeastConn ->
           {[idx |-> LeastConnIndex(st, cands),
             stats |-> CreateAll(st, cands, 1), counter |-> counter]}
      [] OTHER ->
           {[idx |-> i, stats |-> st, counter |-> counter] :
               i \in RandomIndexes(Len(cands))}

\* Select(services)
Select(cands) ==
    IF Len(cands) = 0
    THEN /\ lastOp' = Op("Select", "", cands, TRUE, "returned", {}, {})
         /\ UNCHANGED <<regVars, lbVars, extVars>>
    ELSE /\ algorithm = AlgorithmRoundRobin => rrCounter < MaxCounter
         /\ \E o \in SelectOutcomes(algorithm, stats, rrCounter, cands) :
                /\ stats' = o.stats
                /\ rrCounter' = o.counter
                /\ lastOp' = Selected(cands, o.idx)
         /\ UNCHANGED <<regVars, algorithm, extVars>>

\* an average that takes the sample directly while no request was counted
NewAvgFirstAtZero(avg, responseTime, total) ==
    IF total = 0 THEN responseTime ELSE (avg * 9 + responseTime) \div 10

\* AvgResponseTime after UpdateStats folded responseTime in; total is the
\* request counter after its increment
NewAvg(avg, responseTime, total) ==
    IF total = 1 THEN responseTime ELSE (avg * 9 + responseTime) \div 10

\* the entry after UpdateStats
UpdateStatsEntry(s, responseTime, success) ==
    [s EXCEPT !.TotalRequests = @ + 1,
              !.SuccessRequests = IF success THEN @ + 1 ELSE @,
              !.FailedRequests = IF success THEN @ ELSE @ + 1,
              !.AvgResponseTime = NewAvg(@, responseTime, s.TotalRequests + 1)]

\* requests counted so far over all instances
RECURSIVE Requests(_, _)
Requests(st, ids) ==
    IF ids = {} THEN 0
    ELSE LET id == CHOOSE x \in ids : TRUE
         IN  st[id].TotalRequests + Requests(st, ids \ {id})

\* the stats map after UpdateStats(serviceID, responseTime, success)
UpdatedStats(st, serviceID, responseTime, success) ==
    [getOrCreateStats(st, serviceID) EXCEPT
        ![serviceID] = UpdateStatsEntry(@, responseTime, success)]

UpdateStats(serviceID, responseTime, success) ==
    /\ Requests(stats, DOMAIN stats) < MaxRequests
    /\ stats' = UpdatedStats(stats, serviceID, responseTime, success)
    /\ lastOp' = Op("UpdateStats", serviceID, responseTime, FALSE, "returned",
                    {success}, {})
    /\ UNCHANGED <<regVars, algorithm, rrCounter, extVars>>

\* the stats map after IncrementActiveConns(serviceID)
IncrementedStats(st, serviceID) ==
    [getOrCreateStats(st, serviceID) EXCEPT ![serviceID].ActiveConns = @ + 1]

IncrementActiveConns(serviceID) ==
    /\ StatsOf(stats, serviceID).ActiveConns < MaxConns
    /\ stats' = IncrementedStats(stats, serviceID)
    /\ lastOp' = Op("IncrementActiveConns", serviceID, "", FALSE, "returned", {}, {})
    /\ UNCHANGED <<regVars, algorithm, rrCounter, extVars>>

\* a decrement without the test for zero
DecrementedAlways(conns) == conns - 1

\* a decrement that stops at one
DecrementedAboveOne(conns) == IF conns > 1 THEN conns - 1 ELSE conns

\* ActiveConns after DecrementActiveConns
Decremented(conns) == IF conns > 0 THEN conns - 1 ELSE conns

\* the stats map after DecrementActiveConns(serviceID)
DecrementedStats(st, serviceID) ==
    [getOrCreateStats(st, serviceID) EXCEPT
        ![serviceID].ActiveConns = Decremented(@)]

DecrementActiveConns(serviceID) ==
    /\ stats' = DecrementedStats(stats, serviceID)
    /\ lastOp' = Op("DecrementActiveConns", serviceID, "", FALSE, "returned", {}, {})
    /\ UNCHANGED <<regVars, algorithm, rrCounter, extVars>>

SetAlgorithm(a) ==
    /\ algorithm' = a
    /\ lastOp' = Op("SetAlgorithm", "", a, FALSE, "returned", {}, {})
    /\ UNCHANGED <<regVars, stats, rrCounter, extVars>>

----------------------------------------------------------------------------
(* Round-robin calls over a stable candidate list.  selectRoundRobin is two
   steps of the calling goroutine: the atomic add on the shared counter, then
   the return of services[index]; calls of different goroutines interleave
   between the two. *)

\* goroutines calling Select concurrently
Callers == {"g1", "g2"}

\* bounds: length of the stable list, number of calls in one behaviour
MaxRRList == 3
MaxRRCalls == 5

\* the stable candidate lists
RRLists == UNION {[1..n -> StatIDs] : n \in 1..MaxRRList}

\* sum of the entries of a sequence of numbers
RECURSIVE SumSeq(_, _)
SumSeq(q, i) == IF i > Len(q) THEN 0 ELSE q[i] + SumSeq(q, i + 1)

\* atomic.AddUint64(&bm.rrCounter, 1): the new value (far below 2^64 here)
AddUint64(counter, delta) == counter + delta

\* line 79, the atomic add of one call
RRAdd(g) ==
    /\ rrList # <<>>
    /\ rrTaken[g] = 0
    /\ SumSeq(visits, 1) + Cardinality({h \in Callers : rrTaken[h] # 0}) < MaxRRCalls
    /\ rrCounter' = AddUint64(rrCounter, 1)
    /\ rrTaken' = [rrTaken EXCEPT ![g] = AddUint64(rrCounter, 1)]
    /\ lastOp' = Op("selectRoundRobin", "", rrList, FALSE, "added", {}, {})
    /\ UNCHANGED <<regVars, algorithm, stats, rrList, visits, exceptRR>>

\* lines 79-80, index := value % len(services); return services[index]
RRReturn(g) ==
    /\ rrTaken[g] # 0
    /\ LET idx == RoundRobinIndex(rrTaken[g], Len(rrList))
       IN  /\ lastOp' = Selected(rrList, idx)
           /\ visits' = IF idx + 1 \in DOMAIN visits
                         THEN [visits EXCEPT ![idx + 1] = @ + 1]
                         ELSE visits
    /\ rrTaken' = [rrTaken EXCEPT ![g] = 0]
    /\ UNCHANGED <<regVars, lbVars, rrList, exceptRR>>

\* no run of round-robin calls
RRIdle ==
    /\ rrList = <<>>
    /\ rrTaken = [g \in Callers |-> 0]
    /\ visits = <<>>

----------------------------------------------------------------------------
(* Paired IncrementActiveConns/DecrementActiveConns calls.  Each pair is a
   request that increments the count of one instance, may record a failure,
   and decrements the same instance afterwards; pairs interleave. *)

\* the requests making one pair each at a time
PairIDs == {"p1", "p2", "p3"}

\* the stats maps before the sequence: any instances, each with any count
PairStartStats ==
    UNION {[ids -> {[NewStats EXCEPT !.ActiveConns = c] : c \in 0..MaxConns}] :
              ids \in SUBSET StatIDs}

\* IncrementActiveConns(id) opening pair p
PairIncrement(p, id) ==
    /\ pairs.of # <<>>
    /\ pairs.of[p] = ""
    /\ stats' = IncrementedStats(stats, id)
    /\ pairs' = [pairs EXCEPT !.of[p] = id]
    /\ lastOp' = Op("IncrementActiveConns", id, p, FALSE, "returned", {}, {})
    /\ UNCHANGED <<regVars, algorithm, rrCounter, exceptPairs>>

\* the request of pair p fails: UpdateStats(id, responseTime, false)
PairFail(p, responseTime) ==
    /\ pairs.of # <<>>
    /\ pairs.of[p] # ""
    /\ Requests(stats, DOMAIN stats) < MaxRequests
    /\ stats' = UpdatedStats(stats, pairs.of[p], responseTime, FALSE)
    /\ lastOp' = Op("UpdateStats", pairs.of[p], responseTime, FALSE, "returned",
                    {FALSE}, {})
    /\ UNCHANGED <<regVars, algorithm, rrCounter, pairs, exceptPairs>>

\* DecrementActiveConns(id) closing pair p
PairDecrement(p) ==
    /\ pairs.of # <<>>
    /\ pairs.of[p] # ""
    /\ stats' = DecrementedStats(stats, pairs.of[p])
    /\ pairs' = [pairs EXCEPT !.of[p] = ""]
    /\ lastOp' = Op("DecrementActiveConns", pairs.of[p], p, FALSE, "returned", {}, {})
    /\ UNCHANGED <<regVars, algorithm, rrCounter, exceptPairs>>

\* no sequence of pairs
PairsIdle == pairs = [base |-> <<>>, of |-> <<>>]

----------------------------------------------------------------------------
(* handleObjects: the requests the API server proxies to a data node, each
   in its own goroutine. *)

\* the goroutines serving requests, and the requests each serves in turn
Reqs == {"r1", "r2"}
MaxRuns == 1

\* time.Since(startTime) of a proxied request: a positive duration
ElapsedTimes == {d \in Durations : d > 0}

\* status codes an upstream data node answers with
Statuses == {99, 200, 404}

\* net/http: WriteHeader panics on a code outside 100..999
MinStatusCode == 100
MaxStatusCode == 999

\* proxyRequest: success is a status below this
StatusErrorFloor == 400

\* the statuses the handlers write (net/http)
StatusOK == 200
StatusNotFound == 404
StatusMethodNotAllowed == 405
StatusInternalServerError == 500
StatusServiceUnavailable == 503

\* how the upstream exchange of one request goes: whether http.NewRequest
\* succeeds, whether client.Do gets an answer, the status of the answer and
\* whether the body is copied to the end
Upstreams ==
    [created : BOOLEAN, answered : BOOLEAN, status : Statuses, copied : BOOLEAN]

\* proxyRequest(w, r, server): "true"/"false" returned, or "panic"
proxyRequest(up) ==
    IF ~up.created THEN "false"
    ELSE IF ~up.answered THEN "false"
    ELSE IF up.status < MinStatusCode \/ up.status > MaxStatusCode THEN "panic"
    ELSE IF ~up.copied THEN "false"
    ELSE IF up.status < StatusErrorFloor THEN "true" ELSE "false"

\* a deferred call that is skipped when the handler panics
DeferredRunsUnlessPanic(result) == result # "panic"

\* defer s.loadBalancer.DecrementActiveConns(selectedServer.ID): the
\* deferred call runs when the handler returns and when it panics
DeferredRuns(result) == TRUE

\* the orders in which a slice built by ranging over a map lists ids
Orders(ids) ==
    {q \in [1..Cardinality(ids) -> ids] :
        \A i \in DOMAIN q, j \in DOMAIN q : i # j => q[i] # q[j]}

\* a goroutine that serves no request and has served none
NoRequest ==
    [pc |-> "idle", runs |-> 0, cands |-> <<>>, node |-> "", result |-> "",
     expected |-> FALSE, flag |-> FALSE, incs |-> 0, decs |-> 0, upds |-> 0,
     httpError |-> 0]

\* a handler that goes on to Select with whatever Discover returned
NoneAvailableIgnored(dataServers) == FALSE

\* line 120: len(dataServers) == 0
NoneAvailable(dataServers) == Cardinality(dataServers) = 0

\* lines 114-124: Discover("dataserver"); 503 and return when none is found
ReqDiscover(r) ==
    /\ requests # <<>>
    /\ requests[r].pc = "idle"
    /\ requests[r].runs < MaxRuns
    /\ LET found == DiscoverResult(services, "dataserver")
           fresh == [NoRequest EXCEPT !.runs = requests[r].runs + 1]
       IN  IF NoneAvailable(found)
           THEN requests' = [requests EXCEPT ![r] =
                               [fresh EXCEPT !.httpError = StatusServiceUnavailable]]
           ELSE \E cands \in Orders(found) :
                   requests' = [requests EXCEPT ![r] =
                                   [fresh EXCEPT !.pc = "discovered",
                                                 !.cands = cands]]
    /\ lastOp' = Op("handleObjects", r, "Discover", FALSE, "returned", {}, {})
    /\ UNCHANGED <<regVars, lbVars, exceptRequests>>

\* lines 126-131: Select(dataServers)
ReqSelect(r) ==
    /\ requests # <<>>
    /\ requests[r].pc = "discovered"
    /\ \E o \in SelectOutcomes(algorithm, stats, rrCounter, requests[r].cands) :
          /\ stats' = o.stats
          /\ rrCounter' = o.counter
          /\ lastOp' = Op("handleObjects", r, "Select", FALSE, "returned", {}, {})
          /\ requests' = [requests EXCEPT ![r].pc = "selected",
                                          ![r].node = requests[r].cands[o.idx + 1],
                                          ![r].cands = <<>>]
    /\ UNCHANGED <<regVars, algorithm, exceptRequests>>

\* lines 133-135: IncrementActiveConns, and the decrement is deferred
ReqIncrement(r) ==
    /\ requests # <<>>
    /\ requests[r].pc = "selected"
    /\ stats' = IncrementedStats(stats, requests[r].node)
    /\ requests' = [requests EXCEPT ![r].pc = "counted", ![r].incs = @ + 1]
    /\ lastOp' = Op("handleObjects", r, "IncrementActiveConns", FALSE,
                    "returned", {}, {})
    /\ UNCHANGED <<regVars, algorithm, rrCounter, exceptRequests>>

\* line 138: proxyRequest returns true or false, or panics
ReqProxy(r, up) ==
    /\ requests # <<>>
    /\ requests[r].pc = "counted"
    /\ requests' = [requests EXCEPT
          ![r].pc = IF proxyRequest(up) = "panic" THEN "panicking" ELSE "returned",
          ![r].result = proxyRequest(up),
          ![r].expected = /\ up.created /\ up.answered /\ up.copied
                          /\ up.status < StatusErrorFloor]
    /\ lastOp' = Op("handleObjects", r, "proxyRequest", FALSE, "returned", {}, {})
    /\ UNCHANGED <<regVars, lbVars, exceptRequests>>

\* lines 141-142: UpdateStats(selectedServer.ID, time.Since(startTime), success)
ReqUpdateStats(r, responseTime) ==
    /\ requests # <<>>
    /\ requests[r].pc = "returned"
    /\ stats' = UpdatedStats(stats, requests[r].node, responseTime,
                             requests[r].result = "true")
    /\ requests' = [requests EXCEPT ![r].pc = "updated",
                                    ![r].upds = @ + 1,
                                    ![r].flag = requests[r].result = "true"]
    /\ lastOp' = Op("handleObjects", r, "UpdateStats", FALSE, "returned", {}, {})
    /\ UNCHANGED <<regVars, algorithm, rrCounter, exceptRequests>>

\* the handler exits, by return or by panic, and its deferred call runs
ReqExit(r) ==
    /\ requests # <<>>
    /\ requests[r].pc \in {"updated", "panicking"}
    /\ IF DeferredRuns(requests[r].result)
       THEN /\ stats' = DecrementedStats(stats, requests[r].node)
            /\ requests' = [requests EXCEPT ![r].pc = "idle", ![r].decs = @ + 1]
       ELSE /\ requests' = [requests EXCEPT ![r].pc = "idle"]
            /\ UNCHANGED stats
    /\ lastOp' = Op("handleObjects", r, "exit", FALSE, "returned", {}, {})
    /\ UNCHANGED <<regVars, algorithm, rrCounter, exceptRequests>>

\* the instances whose count a request in flight holds
Holding(reqs, id) ==
    {r \in DOMAIN reqs : reqs[r].node = id
                         /\ reqs[r].pc \in {"counted", "returned", "updated",
                                            "panicking"}}

\* no API server handling requests
ReqIdle == requests = <<>>

----------------------------------------------------------------------------
(* GetStats and the metrics endpoint.  The entries of the stats map are
   pointers; an entry is never replaced or deleted once created, so the
   pointer held under key k is identified with k. *)

\* GetStats: result[k] = v for every k, v of bm.stats; v is the pointer
GetStatsResult(st) == [k \in DOMAIN st |-> k]

\* the counters reachable from a value of the returned map
Deref(st, ptr) == st[ptr]

\* handleMetrics line 228: s.loadBalancer.GetStats()
GetStats ==
    /\ snapshot' = [result |-> GetStatsResult(stats), then |-> stats,
                    written |-> <<>>]
    /\ lastOp' = Op("GetStats", "", "", FALSE, "returned", DOMAIN stats, {})
    /\ UNCHANGED <<regVars, lbVars, exceptSnapshot>>

\* handleMetrics line 233: api.WriteJSON(w, metrics) encodes what the
\* returned map points to when it runs, after the lock was released
WriteJSON ==
    /\ snapshot # <<>>
    /\ snapshot.written = <<>>
    /\ DOMAIN snapshot.result # {}
    /\ snapshot' = [snapshot EXCEPT !.written =
                        [k \in DOMAIN snapshot.result |->
                            Deref(stats, snapshot.result[k])]]
    /\ lastOp' = Op("WriteJSON", "", "", FALSE, "returned",
                    DOMAIN snapshot.result, {})
    /\ UNCHANGED <<regVars, lbVars, exceptSnapshot>>

\* no GetStats call made
SnapshotIdle == snapshot = <<>>

----------------------------------------------------------------------------
(* The selector's reader/writer lock, step by step.  Goroutines acquire
   bm.mutex shared (RLock: selectWeighted, selectLeastConn, GetStats) or
   exclusive (Lock: UpdateStats) and then read or write the stats map. *)

\* a goroutine outside the selector
Outside == [op |-> "", phase |-> "idle", cands |-> <<>>, i |-> 0, id |-> "",
            ok |-> FALSE]

\* the goroutines inside the lock other than g
OthersInside(rc, g) == (rc.readers \cup {rc.writer}) \ {g, ""}

\* what a map write can do when it runs unsynchronised with the map accesses
\* of other goroutines: take effect, be lost, or end the process with the
\* runtime's fatal error (concurrent map writes, concurrent map read and map
\* write); alone inside the lock it takes effect
MapWriteOutcomes(rc, g) ==
    IF OthersInside(rc, g) = {} THEN {"written"}
    ELSE {"written", "lost", "fatal"}

\* Select with the weighted or least_conn algorithm: bm.mutex.RLock()
RaceSelectLock(g, cands) ==
    /\ race # <<>> /\ ~race.crashed
    /\ race.pc[g].phase = "idle"
    /\ algorithm \in {AlgorithmWeighted, AlgorithmLeastConn}
    /\ Len(cands) > 0
    /\ race.writer = ""
    /\ race' = [race EXCEPT !.readers = @ \cup {g},
                            !.pc[g] = [Outside EXCEPT !.op = "Select",
                                                      !.phase = "lookup",
                                                      !.cands = cands,
                                                      !.i = 1]]
    /\ lastOp' = Op("RLock", g, "Select", FALSE, "returned", {}, {})
    /\ UNCHANGED <<regVars, lbVars, exceptRace>>

\* getOrCreateStats line 190: the lookup of the next candidate
RaceLookup(g) ==
    /\ race # <<>> /\ ~race.crashed
    /\ race.pc[g].phase = "lookup"
    /\ race.pc[g].i <= Len(race.pc[g].cands)
    /\ race' = IF race.pc[g].cands[race.pc[g].i] \in DOMAIN stats
               THEN [race EXCEPT !.pc[g].i = @ + 1]
               ELSE [race EXCEPT !.pc[g].phase = "insert"]
    /\ lastOp' = Op("getOrCreateStats", g, "lookup", FALSE, "returned", {}, {})
    /\ UNCHANGED <<regVars, lbVars, exceptRace>>

\* getOrCreateStats line 197: bm.stats[serviceID] = stats
RaceInsert(g) ==
    /\ race # <<>> /\ ~race.crashed
    /\ race.pc[g].phase = "insert"
    /\ \E outcome \in MapWriteOutcomes(race, g) :
          /\ stats' = IF outcome = "written"
                       THEN getOrCreateStats(stats, race.pc[g].cands[race.pc[g].i])
                       ELSE stats
          /\ race' = [race EXCEPT !.pc[g].phase = "lookup",
                                  !.pc[g].i = @ + 1,
                                  !.crashed = outcome = "fatal"]
          /\ lastOp' = Op("getOrCreateStats", g, "insert", outcome = "fatal",
                          outcome, {}, {})
    /\ UNCHANGED <<regVars, algorithm, rrCounter, exceptRace>>

\* the loop is over: the best candidate is returned, deferred RUnlock
RaceSelectReturn(g) ==
    /\ race # <<>> /\ ~race.crashed
    /\ race.pc[g].phase = "lookup"
    /\ race.pc[g].i > Len(race.pc[g].cands)
    /\ race' = [race EXCEPT !.readers = @ \ {g}, !.pc[g] = Outside]
    /\ lastOp' = Selected(race.pc[g].cands,
                          IF algorithm = AlgorithmWeighted
                          THEN WeightedIndex(stats, race.pc[g].cands)
                          ELSE LeastConnIndex(stats, race.pc[g].cands))
    /\ UNCHANGED <<regVars, lbVars, exceptRace>>

\* GetStats: bm.mutex.RLock()
RaceGetStatsLock(g) ==
    /\ race # <<>> /\ ~race.crashed
    /\ race.pc[g].phase = "idle"
    /\ race.writer = ""
    /\ race' = [race EXCEPT !.readers = @ \cup {g},
                            !.pc[g] = [Outside EXCEPT !.op = "GetStats",
                                                      !.phase = "copy"]]
    /\ lastOp' = Op("RLock", g, "GetStats", FALSE, "returned", {}, {})
    /\ UNCHANGED <<regVars, lbVars, exceptRace>>

\* GetStats: the map is ranged over and copied, deferred RUnlock
RaceGetStatsReturn(g) ==
    /\ race # <<>> /\ ~race.crashed
    /\ race.pc[g].phase = "copy"
    /\ race' = [race EXCEPT !.readers = @ \ {g}, !.pc[g] = Outside]
    /\ lastOp' = Op("GetStats", g, "", FALSE, "returned", DOMAIN stats, {})
    /\ UNCHANGED <<regVars, lbVars, exceptRace>>

\* UpdateStats: bm.mutex.Lock()
RaceUpdateLock(g, serviceID, success) ==
    /\ race # <<>> /\ ~race.crashed
    /\ race.pc[g].phase = "idle"
    /\ race.writer = "" /\ race.readers = {}
    /\ Requests(stats, DOMAIN stats) < MaxRequests
    /\ race' = [race EXCEPT !.writer = g,
                            !.pc[g] = [Outside EXCEPT !.op = "UpdateStats",
                                                      !.phase = "update",
                                                      !.id = serviceID,
                                                      !.ok = success]]
    /\ lastOp' = Op("Lock", g, "UpdateStats", FALSE, "returned", {}, {})
    /\ UNCHANGED <<regVars, lbVars, exceptRace>>

\* UpdateStats: the entry is created if missing and updated, deferred Unlock
RaceUpdateReturn(g, responseTime) ==
    /\ race # <<>> /\ ~race.crashed
    /\ race.pc[g].phase = "update"
    /\ stats' = UpdatedStats(stats, race.pc[g].id, responseTime, race.pc[g].ok)
    /\ race' = [race EXCEPT !.writer = "", !.pc[g] = Outside]
    /\ lastOp' = Op("UpdateStats", race.pc[g].id, responseTime, FALSE,
                    "returned", {race.pc[g].ok}, {})
    /\ UNCHANGED <<regVars, algorithm, rrCounter, exceptRace>>

\* no goroutine inside the selector
RaceIdle == race = <<>>

----------------------------------------------------------------------------
(* Locate: the API server asks every data node for an object over the
   "dataServers" fanout exchange and waits on the reply queue of the call; a
   timer closes that queue after one second.  Strings are sequences of
   segments, concatenated with \o; the empty string is the empty sequence. *)

\* the data nodes, the objects asked for and the Locate calls made; a call
\* is named after the reply queue rabbitmq.New declares for it
Nodes == {"A", "B"}
Objects == {"X", "Y"}
LocateCalls == {"c1", "c2"}

\* os.Getenv("STORAGE_ROOT") of a data node
Root(n) == <<"/root", n>>

\* os.Getenv("LISTEN_ADDRESS") of a data node
Address(n) == <<n, ":12345">>

\* json.Marshal of a string: the string between double quotes
Marshal(str) == <<"\"">> \o str \o <<"\"">>

\* strconv.Unquote: the string between the quotes and no error, or the empty
\* string and an error for a body that is not a quoted string
Unquote(body) ==
    IF Len(body) >= 2 /\ body[1] = "\"" /\ body[Len(body)] = "\""
    THEN [s |-> SubSeq(body, 2, Len(body) - 1), err |-> FALSE]
    ELSE [s |-> <<>>, err |-> TRUE]

\* dataserver: name := root + "/objects/" + object
ObjectPath(n, object) == Root(n) \o <<"/objects/">> \o object

\* a node that answers whether or not it has the file
NodeLocateAlways(holds, n, name) == TRUE

\* dataserver locate.Locate(name): os.Stat does not report a missing file
NodeLocate(holds, n, name) == \E o \in holds[n] : name = ObjectPath(n, <<o>>)

\* the reply the requester takes when several are queued: the newest
LastReply(q) == q[Len(q)]

\* msg := <-c: the oldest delivery of the reply queue
FirstReply(q) == Head(q)

\* a timer that is cancelled once a reply is queued
TimerFiresUnlessReplied(call) == ~call.closed /\ call.first = ""

\* time.Sleep(time.Second); q.Close(): the timer fires once, whether or not
\* a reply arrived
TimerFires(call) == ~call.closed

\* a Locate call that was not made
NoCall ==
    [pc |-> "idle", name |-> <<>>, replies |-> <<>>, closed |-> FALSE,
     result |-> <<>>, consumed |-> 0, first |-> "", took |-> <<>>]

\* apiserver Locate lines 29-32: New declares the reply queue c, Publish fans
\* the marshalled name out to the queue of every data node, Consume
LocateCall(c, object) ==
    /\ locate # <<>>
    /\ locate.calls[c].pc = "idle"
    /\ locate' = [locate EXCEPT
          !.calls[c].pc = "waiting",
          !.calls[c].name = <<object>>,
          !.inbox = [n \in Nodes |->
                        Append(locate.inbox[n],
                               [body |-> Marshal(<<object>>), replyTo |-> c,
                                from |-> c])]]
    /\ lastOp' = Op("Locate", c, object, FALSE, "published", {}, {})
    /\ UNCHANGED <<regVars, lbVars, exceptLocate>>

\* dataserver StartLocate lines 32-43: one message of the node's queue; the
\* reply goes to the queue msg.ReplyTo names and carries the path
StartLocate(n) ==
    /\ locate # <<>>
    /\ locate.inbox[n] # <<>>
    /\ LET msg == Head(locate.inbox[n])
           object == Unquote(msg.body)
           name == ObjectPath(n, object.s)
           sends == ~object.err /\ NodeLocate(locate.holds, n, name)
           \* a message sent to a deleted queue is dropped
           queued == sends /\ ~locate.calls[msg.replyTo].closed
           reply == [body |-> Marshal(name), node |-> n, about |-> object.s,
                     call |-> msg.from]
       IN  /\ locate' = [locate EXCEPT
                 !.inbox[n] = Tail(@),
                 !.calls[msg.replyTo].replies =
                     IF queued THEN Append(@, reply) ELSE @,
                 !.calls[msg.replyTo].first =
                     IF queued /\ @ = "" THEN n ELSE @]
           /\ lastOp' = Op("StartLocate", n, msg.replyTo, object.err,
                           IF sends THEN "sent" ELSE "silent", {}, {})
    /\ UNCHANGED <<regVars, lbVars, exceptLocate>>

\* apiserver Locate lines 33-36: a second after Consume the goroutine closes
\* the queue, which closes the delivery channel c
TimerClose(c) ==
    /\ locate # <<>>
    /\ locate.calls[c].pc # "idle"
    /\ TimerFires(locate.calls[c])
    /\ locate' = [locate EXCEPT !.calls[c].closed = TRUE]
    /\ lastOp' = Op("Close", c, "", FALSE, "returned", {}, {})
    /\ UNCHANGED <<regVars, lbVars, exceptLocate>>

\* apiserver Locate lines 37-39: msg := <-c takes the first delivery, or the
\* zero Delivery once c is closed; the unquoted body is returned
LocateReceive(c) ==
    /\ locate # <<>>
    /\ locate.calls[c].pc = "waiting"
    /\ locate.calls[c].closed \/ locate.calls[c].replies # <<>>
    /\ LET call == locate.calls[c]
           delivered == ~call.closed
           body == IF delivered THEN FirstReply(call.replies).body ELSE <<>>
       IN  /\ locate' = [locate EXCEPT
                 !.calls[c].pc = "returned",
                 !.calls[c].replies = IF delivered THEN Tail(@) ELSE @,
                 !.calls[c].consumed = IF delivered THEN @ + 1 ELSE @,
                 !.calls[c].took =
                     IF delivered
                     THEN <<FirstReply(call.replies).node,
                            FirstReply(call.replies).about,
                            FirstReply(call.replies).call>>
                     ELSE <<>>,
                 !.calls[c].result = Unquote(body).s]
           /\ lastOp' = Op("Locate", c, call.name, Unquote(body).err,
                           "returned", {}, {})
    /\ UNCHANGED <<regVars, lbVars, exceptLocate>>

\* no Locate call made
LocateIdle == locate = <<>>

(* The streaming object handler of the API server and the data nodes *)

\* request bodies, as sequences of bytes
Payloads == {<<>>, <<"b1">>, <<"b1", "b2">>}

\* http.ResponseWriter of one request: the status lines sent, the body
\* bytes sent and the statuses passed to WriteHeader, call by call
NewWriter == [sent |-> <<>>, body |-> <<>>, codes |-> <<>>]

\* a WriteHeader whose status replaces the one already written
WriteHeaderLastWins(w, code) ==
    [w EXCEPT !.sent = <<code>>, !.codes = Append(@, code)]

\* w.WriteHeader(code): the first call sends the status line, a later call
\* is superfluous and changes nothing of the response
WriteHeader(w, code) ==
    IF w.sent = <<>>
    THEN [w EXCEPT !.sent = <<code>>, !.codes = Append(@, code)]
    ELSE [w EXCEPT !.codes = Append(@, code)]

\* io.Copy(w, stream): Write is called for the bytes read, and the first
\* Write sends status 200 when no status was written; nothing is written
\* for an empty stream
Copy(w, bytes) ==
    IF bytes = <<>> THEN w
    ELSE [w EXCEPT !.sent = IF @ = <<>> THEN <<StatusOK>> ELSE @,
                   !.body = @ \o bytes]

\* the results heartbeat.ChooseRandomDataServer() hands to putStream: the
\* address of a data node, or the empty string
ChosenServers == {<<>>} \cup {Address(n) : n \in Nodes}

\* the results locate.Locate(object) hands to getStream: the reply of a
\* node that holds the object, or the empty string
LocateResults(files, object) ==
    {<<>>} \cup {ObjectPath(n, object) : n \in {m \in Nodes : object[1] \in DOMAIN files[m]}}

\* the segments of a URL that begin with a slash
SlashSegments == {"/root", "/objects/", "/objects"}

\* the number of leading segments of a URL, after the scheme, that make up
\* its host
RECURSIVE HostLen(_)
HostLen(rest) ==
    IF rest = <<>> \/ Head(rest) \in SlashSegments THEN 0
    ELSE 1 + HostLen(Tail(rest))

\* the data node's mux and objects.get: a path under "/objects/" is served
\* the file of that name, or 404 when it cannot be opened; any other path
\* is answered 404 by the mux
DataNodeGet(files, n, path) ==
    IF Len(path) = 2 /\ path[1] = "/objects/" /\ path[2] \in DOMAIN files[n]
    THEN [err |-> FALSE, status |-> StatusOK, body |-> files[n][path[2]]]
    ELSE [err |-> FALSE, status |-> StatusNotFound, body |-> <<>>]

\* http.Get(url): an error when the URL has no host or no node listens at
\* the host, else the answer of the node
HttpGet(files, url) ==
    LET rest == Tail(url)
        k == HostLen(rest)
        host == SubSeq(rest, 1, k)
        path == SubSeq(rest, k + 1, Len(rest))
    IN  IF \E n \in Nodes : host = Address(n)
        THEN DataNodeGet(files, CHOOSE n \in Nodes : host = Address(n), path)
        ELSE [err |-> TRUE, status |-> 0, body |-> <<>>]

\* NewGetStream(server, object) and newGetStream(url): the bytes of the
\* stream, or an error
NewGetStream(files, server, object) ==
    IF server = <<>> \/ object = <<>>
    THEN [err |-> TRUE, body |-> <<>>]
    ELSE LET resp == HttpGet(files, <<"http://">> \o server \o <<"/objects">> \o object)
         IN  IF resp.err THEN [err |-> TRUE, body |-> <<>>]
             ELSE IF resp.status # StatusOK THEN [err |-> TRUE, body |-> <<>>]
             ELSE [err |-> FALSE, body |-> resp.body]

\* the goroutine of NewPutStream after client.Do: err != nil &&
\* resp.StatusCode != 200 reads resp, which is nil when the exchange
\* failed; an answered exchange leaves err nil whatever the status
PutStreamResult(failed, status) ==
    IF failed THEN "panic" ELSE "nil"

\* storeObject: the status for the error of stream.Close()
StoreStatus(err) ==
    IF err # "nil" THEN StatusInternalServerError ELSE StatusOK

\* the files of a node after a file was written
Written(files, n, name, bytes) ==
    [files EXCEPT ![n] = [o \in DOMAIN files[n] \cup {name} |->
                             IF o = name THEN bytes ELSE files[n][o]]]

\* no request served
NoApiRequest ==
    [pc |-> "idle", method |-> "", object |-> <<>>, body |-> <<>>,
     server |-> <<>>, stream |-> "none", upstream |-> "", status |-> 0,
     openErr |-> FALSE, w |-> NewWriter]

\* the node listening at an address
NodeAt(server) == CHOOSE n \in Nodes : Address(n) = server

\* Handler, PUT: put(w, r) is entered with the object name and the body
ApiPut(object, body) ==
    /\ api # <<>>
    /\ ~api.crashed
    /\ api.req.pc \in {"idle", "done"}
    /\ api' = [api EXCEPT !.req = [NoApiRequest EXCEPT !.pc = "put",
                                                      !.method = "PUT",
                                                      !.object = object,
                                                      !.body = body]]
    /\ lastOp' = Op("Handler", "PUT", object, FALSE, "returned", {}, {})
    /\ UNCHANGED <<regVars, lbVars, exceptApi, locate>>

\* putStream: no server chosen is an error, which storeObject turns into
\* 503 and put writes; else NewPutStream opens the pipe and starts the
\* outbound request
ApiPutStream(server) ==
    /\ api # <<>>
    /\ ~api.crashed
    /\ api.req.pc = "put"
    /\ IF server = <<>>
       THEN api' = [api EXCEPT
                      !.req.pc = "handler",
                      !.req.w = WriteHeader(@, StatusServiceUnavailable)]
       ELSE api' = [api EXCEPT !.req.pc = "copy",
                               !.req.server = server,
                               !.req.stream = "open"]
    /\ lastOp' = Op("putStream", "PUT", api.req.object, server = <<>>,
                    "returned", {}, {})
    /\ UNCHANGED <<regVars, lbVars, exceptApi, locate>>

\* storeObject: io.Copy(stream, r), then stream.Close() closes the pipe and
\* waits for the goroutine
ApiCopy ==
    /\ api # <<>>
    /\ ~api.crashed
    /\ api.req.pc = "copy"
    /\ api' = [api EXCEPT !.req.pc = "wait", !.req.stream = "closed"]
    /\ lastOp' = Op("storeObject", "PUT", api.req.object, FALSE, "returned",
                    {}, {})
    /\ UNCHANGED <<regVars, lbVars, exceptApi, locate>>

\* the data node's objects.put: the directory or the file cannot be
\* created (500), the copy fails after the file was created (500, a part of
\* the body is in the file), or the body is copied to its end (200)
DataNodePut(outcome) ==
    /\ api # <<>>
    /\ ~api.crashed
    /\ api.req.method = "PUT"
    /\ api.req.stream # "none"
    /\ api.req.upstream = ""
    /\ LET n == NodeAt(api.req.server)
           name == api.req.object[1]
       IN  CASE outcome = "create" ->
                  api' = [api EXCEPT !.req.upstream = "answered",
                                     !.req.status = StatusInternalServerError]
             [] outcome = "copy" ->
                  \E k \in 0..(Len(api.req.body) - 1) :
                     api' = [api EXCEPT
                        !.req.upstream = "answered",
                        !.req.status = StatusInternalServerError,
                        !.files = Written(@, n, name, SubSeq(api.req.body, 1, k))]
             [] outcome = "stored" ->
                  /\ api.req.stream = "closed"
                  /\ api' = [api EXCEPT
                        !.req.upstream = "answered",
                        !.req.status = StatusOK,
                        !.files = Written(@, n, name, api.req.body)]
    /\ lastOp' = Op("objects.put", "PUT", api.req.object, outcome # "stored",
                    "returned", {}, {})
    /\ UNCHANGED <<regVars, lbVars, exceptApi, locate>>

\* client.Do returns an error: the data node cannot be reached
ClientDoFails ==
    /\ api # <<>>
    /\ ~api.crashed
    /\ api.req.method = "PUT"
    /\ api.req.stream # "none"
    /\ api.req.upstream = ""
    /\ api' = [api EXCEPT !.req.upstream = "failed"]
    /\ lastOp' = Op("client.Do", "PUT", api.req.object, TRUE, "returned",
                    {}, {})
    /\ UNCHANGED <<regVars, lbVars, exceptApi, locate>>

\* the goroutine of NewPutStream sends its error, stream.Close() returns
\* it, storeObject maps it to a status and put writes the status; a panic
\* of the goroutine ends the process
ApiClose ==
    /\ api # <<>>
    /\ ~api.crashed
    /\ api.req.pc = "wait"
    /\ api.req.upstream # ""
    /\ LET err == PutStreamResult(api.req.upstream = "failed", api.req.status)
           code == StoreStatus(err)
           name == api.req.object[1]
       IN  /\ IF err = "panic"
              THEN api' = [api EXCEPT !.crashed = TRUE, !.req.pc = "crashed"]
              ELSE api' = [api EXCEPT
                      !.req.pc = "handler",
                      !.req.w = WriteHeader(@, code),
                      !.acked = IF code = StatusOK
                                THEN [o \in DOMAIN @ \cup {name} |->
                                         IF o = name THEN api.req.body ELSE @[o]]
                                ELSE [o \in DOMAIN @ \ {name} |-> @[o]]]
           /\ lastOp' = Op("PutStream.Close", "PUT", api.req.object,
                           err # "nil", "returned", {}, {})
    /\ UNCHANGED <<regVars, lbVars, exceptApi, locate>>

\* Handler, GET: get(w, r) is entered with the object name
ApiGet(object) ==
    /\ api # <<>>
    /\ ~api.crashed
    /\ api.req.pc \in {"idle", "done"}
    /\ api' = [api EXCEPT !.req = [NoApiRequest EXCEPT !.pc = "get",
                                                      !.method = "GET",
                                                      !.object = object]]
    /\ lastOp' = Op("Handler", "GET", object, FALSE, "returned", {}, {})
    /\ UNCHANGED <<regVars, lbVars, exceptApi, locate>>

\* getStream: locate.Locate(object); the empty string is an error, which
\* get answers with 404
ApiLocate ==
    /\ api # <<>>
    /\ ~api.crashed
    /\ api.req.pc = "get"
    /\ \E server \in LocateResults(api.files, api.req.object) :
          /\ IF server = <<>>
             THEN api' = [api EXCEPT !.req.pc = "handler",
                                     !.req.w = WriteHeader(@, StatusNotFound)]
             ELSE api' = [api EXCEPT !.req.pc = "open", !.req.server = server]
          /\ lastOp' = Op("getStream", "GET", api.req.object, server = <<>>,
                          "returned", {}, {})
    /\ UNCHANGED <<regVars, lbVars, exceptApi, locate>>

\* getStream: NewGetStream(server, object); get answers an error with 404
\* and copies the stream to the response otherwise
ApiGetStream ==
    /\ api # <<>>
    /\ ~api.crashed
    /\ api.req.pc = "open"
    /\ LET stream == NewGetStream(api.files, api.req.server, api.req.object)
       IN  /\ IF stream.err
              THEN api' = [api EXCEPT !.req.pc = "handler",
                                      !.req.openErr = TRUE,
                                      !.req.w = WriteHeader(@, StatusNotFound)]
              ELSE api' = [api EXCEPT !.req.pc = "handler",
                                      !.req.w = Copy(@, stream.body)]
           /\ lastOp' = Op("NewGetStream", "GET", api.req.object, stream.err,
                           "returned", {}, {})
    /\ UNCHANGED <<regVars, lbVars, exceptApi, locate>>

\* the methods of a request other than PUT and GET
OtherMethods == {"DELETE", "POST"}

\* Handler, a method that is neither PUT nor GET: put and get are skipped
ApiOther(method, object) ==
    /\ api # <<>>
    /\ ~api.crashed
    /\ api.req.pc \in {"idle", "done"}
    /\ api' = [api EXCEPT !.req = [NoApiRequest EXCEPT !.pc = "handler",
                                                      !.method = method,
                                                      !.object = object]]
    /\ lastOp' = Op("Handler", method, object, FALSE, "returned", {}, {})
    /\ UNCHANGED <<regVars, lbVars, exceptApi, locate>>

\* Handler, last line: w.WriteHeader(http.StatusMethodNotAllowed) runs
\* after put and get have returned
ApiHandlerEnd ==
    /\ api # <<>>
    /\ ~api.crashed
    /\ api.req.pc = "handler"
    /\ api' = [api EXCEPT !.req.pc = "done",
                          !.req.w = WriteHeader(@, StatusMethodNotAllowed)]
    /\ lastOp' = Op("Handler", api.req.method, api.req.object, FALSE,
                    "done", {}, {})
    /\ UNCHANGED <<regVars, lbVars, exceptApi, locate>>

----------------------------------------------------------------------------
(* The background loops of a data node and the broker *)

\* a loop whose recover lets the panic go on, which ends the process
RecoveredNever(panicked) == FALSE

\* recover() in the deferred function of a loop body: a panic of the body
\* is caught there
Recovered(panicked) == panicked

\* the loop after its body has ended and the deferred function has run:
\* when recover() returns a panic the loop sleeps the backoff, and the
\* outer for runs the body again; a panic that is not caught ends the
\* process
AfterBody(loop, backoff) ==
    IF ~loop.panicked THEN [loop EXCEPT !.pc = "connect"]
    ELSE IF Recovered(loop.panicked)
    THEN [loop EXCEPT !.pc = "connect", !.slept = backoff,
                      !.panicked = FALSE]
    ELSE [loop EXCEPT !.pc = "crashed"]

\* time.Sleep(5 * time.Second) of the deferred functions, in seconds
HeartbeatBackoff == 5
LocateBackoff == 5

\* q.Bind(exchange) seen from a loop: a broker that cannot be reached
\* makes it panic; else the queue is bound, after the exchange was declared
\* if it was missing
BindOutcome(up, declared) ==
    IF up THEN [panic |-> FALSE, declared |-> TRUE]
    ELSE [panic |-> TRUE, declared |-> declared]

\* q.Publish(exchange, body) seen from a loop: a broker that cannot be
\* reached makes it panic; else the message is published, after the
\* exchange was declared if it was missing
PublishOutcome(up, declared) ==
    IF up THEN [panic |-> FALSE, declared |-> TRUE]
    ELSE [panic |-> TRUE, declared |-> declared]

\* a heartbeat loop before its first connection
NoLoop ==
    [pc |-> "connect", open |-> 0, failed |-> FALSE, slept |-> 0,
     panicked |-> FALSE, failure |-> ""]

\* StartHeartbeat, rabbitmq.New(server): a failed connect panics before
\* the Close is deferred
HbConnect(n) ==
    /\ heartbeat # <<>>
    /\ heartbeat.loop[n].pc = "connect"
    /\ IF heartbeat.up
       THEN heartbeat' = [heartbeat EXCEPT
                            !.loop[n].pc = "publish",
                            !.loop[n].open = @ + 1,
                            !.loop[n].failed = FALSE,
                            !.loop[n].slept = 0]
       ELSE heartbeat' = [heartbeat EXCEPT
                            !.loop[n].pc = "recover",
                            !.loop[n].failed = TRUE,
                            !.loop[n].slept = 0,
                            !.loop[n].panicked = TRUE,
                            !.loop[n].failure = "connect"]
    /\ lastOp' = Op("rabbitmq.New", n, "heartbeat", ~heartbeat.up, "returned",
                    {}, {})
    /\ UNCHANGED <<regVars, lbVars, exceptHeartbeat>>

\* StartHeartbeat, q.Publish("apiServers", address)
HbPublish(n) ==
    /\ heartbeat # <<>>
    /\ heartbeat.loop[n].pc = "publish"
    /\ LET o == PublishOutcome(heartbeat.up, heartbeat.declared)
       IN  /\ IF o.panic
              THEN heartbeat' = [heartbeat EXCEPT
                                   !.loop[n].pc = "closing",
                                   !.loop[n].failed = TRUE,
                                   !.loop[n].slept = 0,
                                   !.loop[n].panicked = TRUE,
                                   !.loop[n].failure = "publish"]
              ELSE heartbeat' = [heartbeat EXCEPT
                                   !.loop[n].pc = "sleep",
                                   !.declared = o.declared,
                                   !.last = [from |-> n,
                                             body |-> Marshal(Address(n))]]
           /\ lastOp' = Op("Publish", n, "apiServers", o.panic, "returned",
                           {}, {})
    /\ UNCHANGED <<regVars, lbVars, exceptHeartbeat>>

\* StartHeartbeat, time.Sleep(5 * time.Second) between two heartbeats
HbSleep(n) ==
    /\ heartbeat # <<>>
    /\ heartbeat.loop[n].pc = "sleep"
    /\ heartbeat' = [heartbeat EXCEPT !.loop[n].pc = "publish"]
    /\ lastOp' = Op("time.Sleep", n, "heartbeat", FALSE, "returned", {}, {})
    /\ UNCHANGED <<regVars, lbVars, exceptHeartbeat>>

\* the deferred q.Close() runs when Publish panics
HbClose(n) ==
    /\ heartbeat # <<>>
    /\ heartbeat.loop[n].pc = "closing"
    /\ heartbeat' = [heartbeat EXCEPT !.loop[n].pc = "recover",
                                      !.loop[n].open = @ - 1]
    /\ lastOp' = Op("Close", n, "heartbeat", FALSE, "returned", {}, {})
    /\ UNCHANGED <<regVars, lbVars, exceptHeartbeat>>

\* the deferred recover of StartHeartbeat, and the outer for
HbRecover(n) ==
    /\ heartbeat # <<>>
    /\ heartbeat.loop[n].pc = "recover"
    /\ heartbeat' = [heartbeat EXCEPT
                        !.loop[n] = AfterBody(@, HeartbeatBackoff)]
    /\ lastOp' = Op("recover", n, "heartbeat", FALSE, "returned", {}, {})
    /\ UNCHANGED <<regVars, lbVars, exceptHeartbeat>>

\* the broker becomes unreachable, or reachable again
HbBroker(up) ==
    /\ heartbeat # <<>>
    /\ heartbeat.up # up
    /\ heartbeat' = [heartbeat EXCEPT !.up = up]
    /\ lastOp' = Op("broker", "", "", ~up, "returned", {}, {})
    /\ UNCHANGED <<regVars, lbVars, exceptHeartbeat>>

\* StartLocate, rabbitmq.New(server)
CsConnect(n) ==
    /\ consumer # <<>>
    /\ consumer.loop[n].pc = "connect"
    /\ IF consumer.up
       THEN consumer' = [consumer EXCEPT
                           !.loop[n].pc = "bind",
                           !.loop[n].open = @ + 1,
                           !.loop[n].failed = FALSE,
                           !.loop[n].slept = 0]
       ELSE consumer' = [consumer EXCEPT
                           !.loop[n].pc = "recover",
                           !.loop[n].failed = TRUE,
                           !.loop[n].slept = 0,
                           !.loop[n].panicked = TRUE,
                           !.loop[n].failure = "connect"]
    /\ lastOp' = Op("rabbitmq.New", n, "locate", ~consumer.up, "returned",
                    {}, {})
    /\ UNCHANGED <<regVars, lbVars, exceptConsumer>>

\* StartLocate, q.Bind("dataServers")
CsBind(n) ==
    /\ consumer # <<>>
    /\ consumer.loop[n].pc = "bind"
    /\ LET o == BindOutcome(consumer.up, consumer.declared)
       IN  /\ IF o.panic
              THEN consumer' = [consumer EXCEPT
                                  !.loop[n].pc = "closing",
                                  !.loop[n].failed = TRUE,
                                  !.loop[n].slept = 0,
                                  !.loop[n].panicked = TRUE,
                                  !.loop[n].failure = "bind"]
              ELSE consumer' = [consumer EXCEPT !.loop[n].pc = "consume",
                                                !.declared = o.declared]
           /\ lastOp' = Op("Bind", n, "dataServers", o.panic, "returned",
                           {}, {})
    /\ UNCHANGED <<regVars, lbVars, exceptConsumer>>

\* StartLocate, q.Consume(): an error panics
CsConsume(n) ==
    /\ consumer # <<>>
    /\ consumer.loop[n].pc = "consume"
    /\ IF consumer.up
       THEN consumer' = [consumer EXCEPT !.loop[n].pc = "range"]
       ELSE consumer' = [consumer EXCEPT
                           !.loop[n].pc = "closing",
                           !.loop[n].failed = TRUE,
                           !.loop[n].slept = 0,
                           !.loop[n].panicked = TRUE,
                           !.loop[n].failure = "consume"]
    /\ lastOp' = Op("Consume", n, "locate", ~consumer.up, "returned", {}, {})
    /\ UNCHANGED <<regVars, lbVars, exceptConsumer>>

\* StartLocate, for msg := range q.Consume(): a delivery is taken and
\* looked up; when the connection is lost the delivery channel is closed
\* and the range loop ends, so the body returns without a panic
CsRange(n, object, held) ==
    /\ consumer # <<>>
    /\ consumer.loop[n].pc = "range"
    /\ IF consumer.up
       THEN consumer' = [consumer EXCEPT
                           !.loop[n].pc = IF NodeLocate([m \in Nodes |-> held],
                                                        n, ObjectPath(n, <<object>>))
                                          THEN "send" ELSE "range",
                           !.loop[n].name = ObjectPath(n, <<object>>)]
       ELSE consumer' = [consumer EXCEPT
                           !.loop[n].pc = "closing",
                           !.loop[n].failed = TRUE,
                           !.loop[n].slept = 0,
                           !.loop[n].failure = "closed"]
    /\ lastOp' = Op("range", n, "locate", ~consumer.up, "returned", {}, {})
    /\ UNCHANGED <<regVars, lbVars, exceptConsumer>>

\* StartLocate, q.Send(msg.ReplyTo, name): an error panics
CsSend(n) ==
    /\ consumer # <<>>
    /\ consumer.loop[n].pc = "send"
    /\ IF consumer.up
       THEN consumer' = [consumer EXCEPT
                           !.loop[n].pc = "range",
                           !.last = [from |-> n,
                                     body |-> Marshal(consumer.loop[n].name)]]
       ELSE consumer' = [consumer EXCEPT
                           !.loop[n].pc = "closing",
                           !.loop[n].failed = TRUE,
                           !.loop[n].slept = 0,
                           !.loop[n].panicked = TRUE,
                           !.loop[n].failure = "send"]
    /\ lastOp' = Op("Send", n, "locate", ~consumer.up, "returned", {}, {})
    /\ UNCHANGED <<regVars, lbVars, exceptConsumer>>

\* the deferred q.Close() runs when the body panics and when it returns
CsClose(n) ==
    /\ consumer # <<>>
    /\ consumer.loop[n].pc = "closing"
    /\ consumer' = [consumer EXCEPT !.loop[n].pc = "recover",
                                    !.loop[n].open = @ - 1]
    /\ lastOp' = Op("Close", n, "locate", FALSE, "returned", {}, {})
    /\ UNCHANGED <<regVars, lbVars, exceptConsumer>>

\* the deferred recover of StartLocate, and the outer for
CsRecover(n) ==
    /\ consumer # <<>>
    /\ consumer.loop[n].pc = "recover"
    /\ consumer' = [consumer EXCEPT
                       !.loop[n] = AfterBody(@, LocateBackoff)]
    /\ lastOp' = Op("recover", n, "locate", FALSE, "returned", {}, {})
    /\ UNCHANGED <<regVars, lbVars, exceptConsumer>>

\* the broker becomes unreachable, or reachable again
CsBroker(up) ==
    /\ consumer # <<>>
    /\ consumer.up # up
    /\ consumer' = [consumer EXCEPT !.up = up]
    /\ lastOp' = Op("broker", "", "", ~up, "returned", {}, {})
    /\ UNCHANGED <<regVars, lbVars, exceptConsumer>>

\* the exchanges of the broker and the errors a broker call can return: no
\* error, the amqp error with code 404, any other error
Exchanges == {"apiServers", "dataServers"}
BrokerErrors == {"", "missing", "other"}

\* a test that takes every error for a missing exchange
MissingExchangeAny(err) == err # ""

\* amqpErr, ok := err.(*amqp.Error); ok && amqpErr.Code == 404
MissingExchange(err) == err = "missing"

\* no broker operation called
NoBrokerOp ==
    [kind |-> "", exchange |-> "", pc |-> "idle", attempts |-> 0,
     declares |-> 0, first |-> "", declareErr |-> FALSE, retry |-> "",
     outcome |-> ""]

\* q.Publish(exchange, body) or q.Bind(exchange) is called
BrokerCall(kind, exchange) ==
    /\ broker # <<>>
    /\ broker.op.pc \in {"idle", "done"}
    /\ broker' = [broker EXCEPT !.op = [NoBrokerOp EXCEPT !.kind = kind,
                                                         !.exchange = exchange,
                                                         !.pc = "first"]]
    /\ lastOp' = Op(kind, exchange, "call", FALSE, "returned", {}, {})
    /\ UNCHANGED <<regVars, lbVars, exceptBroker>>

\* the first channel.Publish or channel.QueueBind: no error ends the call,
\* a missing exchange leads to the declaration, any other error panics
BrokerFirst(err) ==
    /\ broker # <<>>
    /\ broker.op.pc = "first"
    /\ broker' = [broker EXCEPT
          !.op.attempts = @ + 1,
          !.op.first = err,
          !.op.pc = IF err = "" THEN "done"
                    ELSE IF MissingExchange(err) THEN "declare" ELSE "done",
          !.op.outcome = IF err = "" THEN "ok"
                         ELSE IF MissingExchange(err) THEN "" ELSE "panic",
          !.bound = IF err = "" /\ broker.op.kind = "Bind"
                    THEN broker.op.exchange ELSE @]
    /\ lastOp' = Op(broker.op.kind, broker.op.exchange, "first", err # "",
                    "returned", {}, {})
    /\ UNCHANGED <<regVars, lbVars, exceptBroker>>

\* channel.ExchangeDeclare(exchange, "fanout", ...): an error panics
BrokerDeclare(declareErr) ==
    /\ broker # <<>>
    /\ broker.op.pc = "declare"
    /\ broker' = [broker EXCEPT
          !.op.declares = @ + 1,
          !.op.declareErr = declareErr,
          !.op.pc = IF declareErr THEN "done" ELSE "retry",
          !.op.outcome = IF declareErr THEN "panic" ELSE "",
          !.declared = IF declareErr THEN @ ELSE @ \cup {broker.op.exchange}]
    /\ lastOp' = Op(broker.op.kind, broker.op.exchange, "declare", declareErr,
                    "returned", {}, {})
    /\ UNCHANGED <<regVars, lbVars, exceptBroker>>

\* the second channel.Publish or channel.QueueBind: any error panics
BrokerRetry(err) ==
    /\ broker # <<>>
    /\ broker.op.pc = "retry"
    /\ broker' = [broker EXCEPT
          !.op.attempts = @ + 1,
          !.op.retry = err,
          !.op.pc = "done",
          !.op.outcome = IF err # "" THEN "panic" ELSE "ok",
          !.bound = IF err = "" /\ broker.op.kind = "Bind"
                    THEN broker.op.exchange ELSE @]
    /\ lastOp' = Op(broker.op.kind, broker.op.exchange, "retry", err # "",
                    "returned", {}, {})
    /\ UNCHANGED <<regVars, lbVars, exceptBroker>>

\* no storage node, loop or broker in use
NetIdle ==
    /\ api = <<>>
    /\ heartbeat = <<>>
    /\ consumer = <<>>
    /\ broker = <<>>

----------------------------------------------------------------------------
(* Specifications *)

\* the parts of the state a specification does not use
ExtIdle ==
    /\ RRIdle /\ PairsIdle /\ ReqIdle /\ NetIdle
    /\ SnapshotIdle /\ RaceIdle /\ LocateIdle /\ NetIdle

\* NewRegistry and StartHealthCheck at time 0, as APIServer does at start-up:
\* an empty map and the health-check ticker running
InitRegistry ==
    /\ now = 0
    /\ services = <<>>
    /\ nextTick = StartHealthCheck(0)
    /\ calls = 0

\* NewBalancerManager(a): an empty stats map, counter 0
InitBalancer(a) ==
    /\ algorithm = a
    /\ stats = <<>>
    /\ rrCounter = 0

\* the registry with its health check; the selector is configured with the
\* default algorithm and not used
Init ==
    /\ InitRegistry
    /\ InitBalancer(AlgorithmRoundRobin)
    /\ lastOp = Op("NewRegistry", "", "", FALSE, "absent", {}, {})
    /\ ExtIdle

Next ==
    \/ \E id \in IDs, name \in Names : Register(id, name)
    \/ \E id \in IDs : Deregister(id)
    \/ \E name \in Names : Discover(name)
    \/ \E id \in IDs, status \in HealthStatus : UpdateHealth(id, status)
    \/ GetAllServices
    \/ checkExpiredServices
    \/ Advance

Spec == Init /\ [][Next]_vars

\* the selector under any configured algorithm; the registry is not used
InitLB ==
    /\ InitRegistry
    /\ \E a \in AlgorithmNames : InitBalancer(a)
    /\ lastOp = Op("NewBalancerManager", "", "", FALSE, "returned", {}, {})
    /\ ExtIdle

NextLB ==
    \/ \E cands \in CandidateLists : Select(cands)
    \/ \E id \in StatIDs, rt \in Durations, ok \in BOOLEAN : UpdateStats(id, rt, ok)
    \/ \E id \in StatIDs : IncrementActiveConns(id)
    \/ \E id \in StatIDs : DecrementActiveConns(id)
    \/ \E a \in AlgorithmNames : SetAlgorithm(a)

SpecLB == InitLB /\ [][NextLB]_vars

\* a run of round-robin Select calls by concurrent goroutines over one stable
\* list; the counter starts from any value earlier calls left in it
InitRR ==
    /\ InitRegistry
    /\ algorithm = AlgorithmRoundRobin
    /\ stats = <<>>
    /\ rrCounter \in 0..(MaxRRList - 1)
    /\ rrList \in RRLists
    /\ rrTaken = [g \in Callers |-> 0]
    /\ visits = [i \in 1..Len(rrList) |-> 0]
    /\ lastOp = Op("NewBalancerManager", "", "", FALSE, "returned", {}, {})
    /\ PairsIdle /\ ReqIdle /\ SnapshotIdle /\ RaceIdle /\ LocateIdle /\ NetIdle

NextRR ==
    \/ \E g \in Callers : RRAdd(g)
    \/ \E g \in Callers : RRReturn(g)

SpecRR == InitRR /\ [][NextRR]_vars

\* a sequence of Increment/Decrement pairs on a selector whose instances
\* have any counts before it
InitConn ==
    /\ InitRegistry
    /\ algorithm = AlgorithmRoundRobin
    /\ rrCounter = 0
    /\ stats \in PairStartStats
    /\ pairs = [base |-> [id \in StatIDs |-> StatsOf(stats, id).ActiveConns],
                of |-> [p \in PairIDs |-> ""]]
    /\ lastOp = Op("NewBalancerManager", "", "", FALSE, "returned", {}, {})
    /\ RRIdle /\ ReqIdle /\ SnapshotIdle /\ RaceIdle /\ LocateIdle /\ NetIdle

NextConn ==
    \/ \E p \in PairIDs, id \in StatIDs : PairIncrement(p, id)
    \/ \E p \in PairIDs, rt \in Durations : PairFail(p, rt)
    \/ \E p \in PairIDs : PairDecrement(p)

SpecConn == InitConn /\ [][NextConn]_vars

\* the API server: data nodes come and go in the registry while goroutines
\* serve object requests; the selector runs the configured algorithm
InitReq ==
    /\ InitRegistry
    /\ \E a \in AlgorithmNames : InitBalancer(a)
    /\ requests = [r \in Reqs |-> NoRequest]
    /\ lastOp = Op("NewAPIServer", "", "", FALSE, "returned", {}, {})
    /\ RRIdle /\ PairsIdle /\ SnapshotIdle /\ RaceIdle /\ LocateIdle /\ NetIdle

NextReq ==
    \/ \E id \in StatIDs : Register(id, "dataserver")
    \/ \E id \in StatIDs : Deregister(id)
    \/ \E r \in Reqs : ReqDiscover(r)
    \/ \E r \in Reqs : ReqSelect(r)
    \/ \E r \in Reqs : ReqIncrement(r)
    \/ \E r \in Reqs, up \in Upstreams : ReqProxy(r, up)
    \/ \E r \in Reqs, rt \in ElapsedTimes : ReqUpdateStats(r, rt)
    \/ \E r \in Reqs : ReqExit(r)

SpecReq == InitReq /\ [][NextReq]_vars

\* the metrics endpoint reading the statistics while requests update them
InitSnap ==
    /\ InitRegistry
    /\ InitBalancer(AlgorithmRoundRobin)
    /\ lastOp = Op("NewBalancerManager", "", "", FALSE, "returned", {}, {})
    /\ ExtIdle

NextSnap ==
    \/ GetStats
    \/ WriteJSON
    \/ \E id \in StatIDs, rt \in ElapsedTimes, ok \in BOOLEAN : UpdateStats(id, rt, ok)
    \/ \E id \in StatIDs : IncrementActiveConns(id)
    \/ \E id \in StatIDs : DecrementActiveConns(id)

SpecSnap == InitSnap /\ [][NextSnap]_vars

\* goroutines calling Select, GetStats and UpdateStats concurrently on a
\* selector configured with the weighted or the least_conn algorithm
InitRace ==
    /\ InitRegistry
    /\ \E a \in {AlgorithmWeighted, AlgorithmLeastConn} : InitBalancer(a)
    /\ race = [readers |-> {}, writer |-> "", crashed |-> FALSE,
               pc |-> [g \in Callers |-> Outside]]
    /\ lastOp = Op("NewBalancerManager", "", "", FALSE, "returned", {}, {})
    /\ RRIdle /\ PairsIdle /\ ReqIdle /\ SnapshotIdle /\ LocateIdle /\ NetIdle

NextRace ==
    \/ \E g \in Callers, cands \in CandidateLists : RaceSelectLock(g, cands)
    \/ \E g \in Callers : RaceLookup(g)
    \/ \E g \in Callers : RaceInsert(g)
    \/ \E g \in Callers : RaceSelectReturn(g)
    \/ \E g \in Callers : RaceGetStatsLock(g)
    \/ \E g \in Callers : RaceGetStatsReturn(g)
    \/ \E g \in Callers, id \in StatIDs, ok \in BOOLEAN : RaceUpdateLock(g, id, ok)
    \/ \E g \in Callers, rt \in ElapsedTimes : RaceUpdateReturn(g, rt)

SpecRace == InitRace /\ [][NextRace]_vars

\* the data nodes serving locate requests, none received yet, each holding
\* the objects of holds
LocateStart(holds) ==
    [holds |-> holds, inbox |-> [n \in Nodes |-> <<>>],
     calls |-> [c \in LocateCalls |-> NoCall]]

\* concurrent Locate calls of the API server; each data node holds any of
\* the objects and serves the messages of its queue at its own pace
InitLocate ==
    /\ InitRegistry
    /\ InitBalancer(AlgorithmRoundRobin)
    /\ \E holds \in [Nodes -> SUBSET Objects] : locate = LocateStart(holds)
    /\ lastOp = Op("main", "", "", FALSE, "returned", {}, {})
    /\ RRIdle /\ PairsIdle /\ ReqIdle /\ SnapshotIdle /\ RaceIdle /\ NetIdle

NextLocate ==
    \/ \E c \in LocateCalls, object \in Objects : LocateCall(c, object)
    \/ \E n \in Nodes : StartLocate(n)
    \/ \E c \in LocateCalls : TimerClose(c)
    \/ \E c \in LocateCalls : LocateReceive(c)

SpecLocate == InitLocate /\ [][NextLocate]_vars

\* the timer goroutine of a call and its blocked receive are scheduled
SpecLocateLive ==
    /\ SpecLocate
    /\ \A c \in LocateCalls :
          WF_vars(TimerClose(c)) /\ WF_vars(LocateReceive(c))

\* the API server and the data nodes before the first request: no upload
\* was acknowledged
ApiStart(files) ==
    [files |-> files, acked |-> <<>>, req |-> NoApiRequest, crashed |-> FALSE]

\* one client sends PUT and GET requests to the streaming handler of the
\* API server, one after the other; the data nodes start with any of the
\* objects on disk
InitObjects ==
    /\ InitRegistry
    /\ InitBalancer(AlgorithmRoundRobin)
    /\ \E held \in [Nodes -> SUBSET Objects] :
          api = ApiStart([n \in Nodes |-> [o \in held[n] |-> <<"b1">>]])
    /\ heartbeat = <<>> /\ consumer = <<>> /\ broker = <<>>
    /\ lastOp = Op("main", "", "", FALSE, "returned", {}, {})
    /\ RRIdle /\ PairsIdle /\ ReqIdle /\ SnapshotIdle /\ RaceIdle /\ LocateIdle

NextObjects ==
    \/ \E object \in Objects, body \in Payloads : ApiPut(<<object>>, body)
    \/ \E server \in ChosenServers : ApiPutStream(server)
    \/ ApiCopy
    \/ \E outcome \in {"create", "copy", "stored"} : DataNodePut(outcome)
    \/ ClientDoFails
    \/ ApiClose
    \/ \E object \in Objects : ApiGet(<<object>>)
    \/ \E method \in OtherMethods, object \in Objects :
          ApiOther(method, <<object>>)
    \/ ApiLocate
    \/ ApiGetStream
    \/ ApiHandlerEnd

SpecObjects == InitObjects /\ [][NextObjects]_vars

\* the heartbeat loops of the data nodes start while the broker is
\* reachable or not, and the exchange "apiServers" declared or not
InitHeartbeat ==
    /\ InitRegistry
    /\ InitBalancer(AlgorithmRoundRobin)
    /\ \E up \in BOOLEAN, declared \in BOOLEAN :
          heartbeat = [up |-> up, declared |-> declared, last |-> <<>>,
                       loop |-> [n \in Nodes |-> NoLoop]]
    /\ api = <<>> /\ consumer = <<>> /\ broker = <<>>
    /\ lastOp = Op("main", "", "", FALSE, "returned", {}, {})
    /\ RRIdle /\ PairsIdle /\ ReqIdle /\ SnapshotIdle /\ RaceIdle /\ LocateIdle

NextHeartbeat ==
    \/ \E n \in Nodes : HbConnect(n)
    \/ \E n \in Nodes : HbPublish(n)
    \/ \E n \in Nodes : HbSleep(n)
    \/ \E n \in Nodes : HbClose(n)
    \/ \E n \in Nodes : HbRecover(n)
    \/ \E up \in BOOLEAN : HbBroker(up)

SpecHeartbeat == InitHeartbeat /\ [][NextHeartbeat]_vars

\* each step of a heartbeat loop is taken in the end: a goroutine that can
\* run is scheduled and a sleep ends
SpecHeartbeatLive ==
    /\ SpecHeartbeat
    /\ \A n \in Nodes :
          /\ WF_vars(HbConnect(n)) /\ WF_vars(HbPublish(n))
          /\ WF_vars(HbSleep(n)) /\ WF_vars(HbClose(n))
          /\ WF_vars(HbRecover(n))

\* a locate-consumer loop before its first connection
NoConsumer ==
    [pc |-> "connect", open |-> 0, failed |-> FALSE, slept |-> 0,
     panicked |-> FALSE, failure |-> "", name |-> <<>>]

\* the locate-consumer loops of the data nodes start while the broker is
\* reachable or not, and the exchange "dataServers" declared or not
InitConsumer ==
    /\ InitRegistry
    /\ InitBalancer(AlgorithmRoundRobin)
    /\ \E up \in BOOLEAN, declared \in BOOLEAN :
          consumer = [up |-> up, declared |-> declared, last |-> <<>>,
                      loop |-> [n \in Nodes |-> NoConsumer]]
    /\ api = <<>> /\ heartbeat = <<>> /\ broker = <<>>
    /\ lastOp = Op("main", "", "", FALSE, "returned", {}, {})
    /\ RRIdle /\ PairsIdle /\ ReqIdle /\ SnapshotIdle /\ RaceIdle /\ LocateIdle

NextConsumer ==
    \/ \E n \in Nodes : CsConnect(n)
    \/ \E n \in Nodes : CsBind(n)
    \/ \E n \in Nodes : CsConsume(n)
    \/ \E n \in Nodes, object \in Objects, held \in SUBSET Objects :
          CsRange(n, object, held)
    \/ \E n \in Nodes : CsSend(n)
    \/ \E n \in Nodes : CsClose(n)
    \/ \E n \in Nodes : CsRecover(n)
    \/ \E up \in BOOLEAN : CsBroker(up)

SpecConsumer == InitConsumer /\ [][NextConsumer]_vars

\* a connected queue calls Publish and Bind, one call after the other;
\* the broker has any of the exchanges declared
InitBroker ==
    /\ InitRegistry
    /\ InitBalancer(AlgorithmRoundRobin)
    /\ \E declared \in SUBSET Exchanges :
          broker = [declared |-> declared, bound |-> "", op |-> NoBrokerOp]
    /\ api = <<>> /\ heartbeat = <<>> /\ consumer = <<>>
    /\ lastOp = Op("main", "", "", FALSE, "returned", {}, {})
    /\ RRIdle /\ PairsIdle /\ ReqIdle /\ SnapshotIdle /\ RaceIdle /\ LocateIdle

NextBroker ==
    \/ \E kind \in {"Publish", "Bind"}, exchange \in Exchanges :
          BrokerCall(kind, exchange)
    \/ \E err \in BrokerErrors : BrokerFirst(err)
    \/ \E declareErr \in BOOLEAN : BrokerDeclare(declareErr)
    \/ \E err \in BrokerErrors : BrokerRetry(err)

SpecBroker == InitBroker /\ [][NextBroker]_vars

TypeOK ==
    /\ now \in 0..MaxTime
    /\ \A id \in DOMAIN services : services[id].ID = id

----------------------------------------------------------------------------
(* Properties of the registry, checked under Spec *)

\* C1: every instance a Discover(name) call returns is in the registry, has
\* the requested name and is Healthy when Discover reads it.
DiscoverExclusive ==
    lastOp.op = "Discover" =>
        \A id \in lastOp.out :
            /\ id \in DOMAIN services
            /\ services[id].Name = lastOp.arg
            /\ services[id].Health = HealthStatusHealthy

\* a Discover that returned one instance and left out another instance of
\* the same name because it is not Healthy
DiscoverExclusiveWitness ==
    /\ lastOp.op = "Discover"
    /\ lastOp.out # {}
    /\ \E id \in DOMAIN services \ lastOp.out :
            /\ services[id].Name = lastOp.arg
            /\ services[id].Health # HealthStatusHealthy

\* C2 as stated: in every state, an instance whose last heartbeat is more
\* than serviceTimeout old is not returned by Discover, and one more than
\* 2*serviceTimeout old is not in GetAllServices.
RegistryFreshness ==
    \A id \in GetAllServicesResult(services) :
        /\ Age(services[id], now) <= ServiceTimeout * 2
        /\ Age(services[id], now) > ServiceTimeout =>
               id \notin DiscoverResult(services, services[id].Name)

\* C2 amended: right after a run of the health sweep, no instance whose
\* lastSeen is more than serviceTimeout old is returned by Discover and none
\* more than 2*serviceTimeout old is in GetAllServices.
FreshnessAfterSweep ==
    lastOp.op = "Sweep" =>
        \A id \in GetAllServicesResult(services) :
            /\ Age(services[id], now) <= ServiceTimeout * 2
            /\ Age(services[id], now) > ServiceTimeout =>
                   id \notin DiscoverResult(services, services[id].Name)

\* a sweep that evicted one instance and demoted another, which stays listed
FreshnessAfterSweepWitness ==
    /\ lastOp.op = "Sweep"
    /\ lastOp.del # {}
    /\ \E id \in DOMAIN services :
            /\ id \in lastOp.out
            /\ Age(services[id], now) > ServiceTimeout

\* C3: one run of the sweep at time now deletes exactly the instances older
\* than 2*serviceTimeout, marks Unhealthy exactly the remaining ones older
\* than serviceTimeout, leaves every other instance as it was, and makes no
\* instance Healthy.
SweepExact ==
    [][lastOp'.op = "Sweep" =>
          /\ DOMAIN services' \subseteq DOMAIN services
          /\ \A id \in DOMAIN services :
                LET age == now' - services[id].LastSeen
                IN  /\ (age > ServiceTimeout * 2) <=> (id \notin DOMAIN services')
                    /\ (age > ServiceTimeout /\ age <= ServiceTimeout * 2) =>
                          services'[id] =
                             [services[id] EXCEPT !.Health = HealthStatusUnhealthy]
                    /\ age <= ServiceTimeout => services'[id] = services[id]
          /\ \A id \in DOMAIN services' :
                services'[id].Health = HealthStatusHealthy =>
                   services[id].Health = HealthStatusHealthy
      ]_vars

\* a sweep that evicted an instance and kept, still Healthy, an instance whose
\* age is exactly serviceTimeout
SweepExactWitness ==
    /\ lastOp.op = "Sweep"
    /\ lastOp.del # {}
    /\ \E id \in DOMAIN services :
            /\ Age(services[id], now) = ServiceTimeout
            /\ services[id].Health = HealthStatusHealthy

\* C4: Register with an empty id, Deregister of an absent id and UpdateHealth
\* of an absent id return an error and leave the registry as it was.
FailedOpChangesNothing ==
    [][/\ ( \/ lastOp'.op = "Register" /\ lastOp'.id = ""
            \/ /\ lastOp'.op \in {"Deregister", "UpdateHealth"}
               /\ lastOp'.id \notin DOMAIN services )
          => lastOp'.err /\ services' = services
       /\ ( lastOp'.op \in {"Register", "Deregister", "UpdateHealth"}
            /\ lastOp'.err )
          => services' = services
      ]_vars

\* an UpdateHealth that failed on an absent id while the registry holds
\* another instance
FailedOpChangesNothingWitness ==
    /\ lastOp.op = "UpdateHealth"
    /\ lastOp.err
    /\ lastOp.id # ""
    /\ DOMAIN services # {}

\* C5: after a successful Register the id is in the registry, Healthy, with
\* lastSeen the current time, and Discover for its name returns it, whatever
\* its state was before.
SelfHealing ==
    (lastOp.op = "Register" /\ ~lastOp.err) =>
        /\ lastOp.id \in DOMAIN services
        /\ services[lastOp.id].Health = HealthStatusHealthy
        /\ services[lastOp.id].LastSeen = now
        /\ lastOp.id \in DiscoverResult(services, lastOp.arg)

\* a Register of an instance that was Unhealthy
SelfHealingWitness ==
    /\ lastOp.op = "Register"
    /\ ~lastOp.err
    /\ lastOp.was = HealthStatusUnhealthy

\* C6: a successful Register adds at most its own id, leaves the other
\* records alone and stamps lastSeen with its own timestamp (the last one to
\* take the lock wins); two Registers for one id, in either order, give the
\* same membership, health and lastSeen.
RegisterLastWriteWins ==
    /\ [][(lastOp'.op = "Register" /\ ~lastOp'.err) =>
            /\ DOMAIN services' = DOMAIN services \cup {lastOp'.id}
            /\ services'[lastOp'.id].LastSeen = now'
            /\ \A k \in DOMAIN services \ {lastOp'.id} : services'[k] = services[k]
         ]_vars
    /\ [](\A id \in IDs \ {""}, n1 \in Names, n2 \in Names :
            LET t1 == now
                t2 == now + Quantum
                ab == RegisterStore(RegisterStore(services, id, n1, t1, t1),
                                    id, n2, t2, t2)
                ba == RegisterStore(RegisterStore(services, id, n2, t1, t1),
                                    id, n1, t2, t2)
            IN  /\ DOMAIN ab = DOMAIN ba
                /\ DOMAIN ab = DOMAIN services \cup {id}
                /\ \A k \in DOMAIN ab :
                      /\ ab[k].Health = ba[k].Health
                      /\ ab[k].LastSeen = ba[k].LastSeen
                /\ ab[id].LastSeen = t2)

\* a Register of an id that was already registered and Healthy, next to a
\* second instance
RegisterLastWriteWinsWitness ==
    /\ lastOp.op = "Register"
    /\ ~lastOp.err
    /\ lastOp.was = HealthStatusHealthy
    /\ Cardinality(DOMAIN services) = 2

\* C7: an id leaves the registry only by a successful Deregister of that id
\* or by a sweep that finds it older than 2*serviceTimeout, and enters it
\* only by a successful Register of that id.
RemovalOnlyByDeregisterOrSweep ==
    [][\A id \in IDs :
          /\ (id \in DOMAIN services /\ id \notin DOMAIN services') =>
                \/ /\ lastOp'.op = "Deregister"
                   /\ lastOp'.id = id
                   /\ ~lastOp'.err
                \/ /\ lastOp'.op = "Sweep"
                   /\ now' - services[id].LastSeen > ServiceTimeout * 2
          /\ (id \notin DOMAIN services /\ id \in DOMAIN services') =>
                /\ lastOp'.op = "Register"
                /\ lastOp'.id = id
                /\ ~lastOp'.err
      ]_vars

\* a sweep whose evictions emptied the registry
RemovalOnlyByDeregisterOrSweepWitness ==
    /\ lastOp.op = "Sweep"
    /\ lastOp.del # {}
    /\ DOMAIN services = {}

\* C8: every instance in the registry has lastSeen >= registeredAt.
LastSeenNotBeforeRegisterTime ==
    \A id \in DOMAIN services :
        services[id].LastSeen >= services[id].RegisterTime

\* an instance whose lastSeen was refreshed after its registration and that a
\* later sweep kept
LastSeenNotBeforeRegisterTimeWitness ==
    /\ lastOp.op = "Sweep"
    /\ \E id \in DOMAIN services :
            services[id].LastSeen > services[id].RegisterTime

\* C9 as stated: an UpdateHealth that reports a status other than Healthy
\* leaves the instance's lastSeen as it was.
FailedProbeKeepsLastSeen ==
    [][( /\ lastOp'.op = "UpdateHealth"
         /\ ~lastOp'.err
         /\ lastOp'.arg # HealthStatusHealthy )
          => services'[lastOp'.id].LastSeen = services[lastOp'.id].LastSeen
      ]_vars

----------------------------------------------------------------------------
(* Properties of the selector, checked under SpecLB *)

\* C10: Select returns the no-available-service error exactly when the
\* candidate list is empty; otherwise it returns, without error or panic,
\* the instance at an index of the candidate list.
SelectContract ==
    lastOp.op = "Select" =>
        /\ lastOp.err <=> (Len(lastOp.arg) = 0)
        /\ Len(lastOp.arg) > 0 =>
              /\ lastOp.was = "returned"
              /\ \E i \in DOMAIN lastOp.arg :
                    /\ lastOp.out = {i - 1}
                    /\ lastOp.id = lastOp.arg[i]

\* a weighted Select that preferred the second of two different candidates
SelectContractWitness ==
    /\ lastOp.op = "Select"
    /\ algorithm = AlgorithmWeighted
    /\ Len(lastOp.arg) = 2
    /\ lastOp.arg[1] # lastOp.arg[2]
    /\ lastOp.out = {1}

\* C12: a weighted Select returns the candidate with the highest score
\* 0.7*success/(total+1) + 0.3/(avgMillis+1), the first in list order among
\* those with the highest score; no candidate with the same latency and a
\* strictly higher success rate success/(total+1) than the returned one
\* exists.
WeightedHighestScore ==
    (lastOp.op = "Select" /\ algorithm = AlgorithmWeighted /\ ~lastOp.err) =>
        LET cands == lastOp.arg
            st(i) == StatsOf(stats, cands[i])
            ms(i) == st(i).AvgResponseTime \div NanosPerMilli
            \* score of i times 10*(total+1)*(ms+1)
            num(i) == 7 * st(i).SuccessRequests * (ms(i) + 1)
                        + 3 * (st(i).TotalRequests + 1)
            den(i) == 10 * (st(i).TotalRequests + 1) * (ms(i) + 1)
            higher(i, j) == num(i) * den(j) > num(j) * den(i)
            higherRate(i, j) ==
                st(i).SuccessRequests * (st(j).TotalRequests + 1)
                    > st(j).SuccessRequests * (st(i).TotalRequests + 1)
        IN  /\ lastOp.was = "returned"
            /\ \E i \in DOMAIN cands :
                  /\ lastOp.out = {i - 1}
                  /\ lastOp.id = cands[i]
                  /\ \A j \in DOMAIN cands : ~higher(j, i)
                  /\ \A j \in DOMAIN cands : j < i => higher(i, j)
                  /\ \A j \in DOMAIN cands :
                        ms(j) = ms(i) => ~higherRate(j, i)

\* of two different candidates with the same latency in milliseconds, the
\* second has the strictly higher success rate and is the one returned
WeightedHighestScoreWitness ==
    /\ lastOp.op = "Select"
    /\ algorithm = AlgorithmWeighted
    /\ Len(lastOp.arg) = 2
    /\ lastOp.arg[1] # lastOp.arg[2]
    /\ LET s1 == StatsOf(stats, lastOp.arg[1])
           s2 == StatsOf(stats, lastOp.arg[2])
       IN  /\ s1.AvgResponseTime \div NanosPerMilli = s2.AvgResponseTime \div NanosPerMilli
           /\ s1.TotalRequests > 0
           /\ s2.SuccessRequests * (s1.TotalRequests + 1)
                 > s1.SuccessRequests * (s2.TotalRequests + 1)
    /\ lastOp.out = {1}
    /\ lastOp.id = lastOp.arg[2]

\* C13: a least_conn Select returns a candidate whose activeConns is minimal
\* over the candidate list, the first such candidate in list order; a
\* candidate without a stats entry counts as 0.
LeastConnMinimal ==
    (lastOp.op = "Select" /\ algorithm = AlgorithmLeastConn /\ ~lastOp.err) =>
        LET cands == lastOp.arg
            conns(i) == IF cands[i] \in DOMAIN stats
                        THEN stats[cands[i]].ActiveConns ELSE 0
        IN  /\ lastOp.was = "returned"
            /\ \E i \in DOMAIN cands :
                  /\ lastOp.out = {i - 1}
                  /\ lastOp.id = cands[i]
                  /\ \A j \in DOMAIN cands : conns(i) <= conns(j)
                  /\ \A j \in DOMAIN cands : j < i => conns(i) < conns(j)

\* the second candidate, idle, is returned because the first has a
\* connection open
LeastConnMinimalWitness ==
    /\ lastOp.op = "Select"
    /\ algorithm = AlgorithmLeastConn
    /\ Len(lastOp.arg) = 2
    /\ lastOp.out = {1}
    /\ StatsOf(stats, lastOp.arg[1]).ActiveConns > 0
    /\ StatsOf(stats, lastOp.arg[2]).ActiveConns = 0

\* C14: an UpdateStats(id, elapsed, success) step adds one to the total
\* counter of id, one to exactly one of its success and failed counters
\* (success when the flag is set), and makes the average latency elapsed
\* when it is the first sample of id, else (avg*9 + elapsed) / 10 in integer
\* division on the previous average; no other entry changes.
UpdateStatsArithmetic ==
    [][lastOp'.op = "UpdateStats" =>
         LET id == lastOp'.id
             elapsed == lastOp'.arg
             first == id \notin DOMAIN stats \/ stats[id].TotalRequests = 0
             old == IF id \in DOMAIN stats THEN stats[id]
                    ELSE [TotalRequests |-> 0, SuccessRequests |-> 0,
                          FailedRequests |-> 0, AvgResponseTime |-> 0,
                          ActiveConns |-> 0]
             new == stats'[id]
         IN  /\ id \in DOMAIN stats'
             /\ new.TotalRequests = old.TotalRequests + 1
             /\ \/ /\ lastOp'.out = {TRUE}
                   /\ new.SuccessRequests = old.SuccessRequests + 1
                   /\ new.FailedRequests = old.FailedRequests
                \/ /\ lastOp'.out = {FALSE}
                   /\ new.SuccessRequests = old.SuccessRequests
                   /\ new.FailedRequests = old.FailedRequests + 1
             /\ first => new.AvgResponseTime = elapsed
             /\ ~first => /\ 10 * new.AvgResponseTime <= old.AvgResponseTime * 9 + elapsed
                          /\ 10 * new.AvgResponseTime > old.AvgResponseTime * 9 + elapsed - 10
             /\ new.ActiveConns = old.ActiveConns
             /\ \A other \in DOMAIN stats \ {id} :
                    other \in DOMAIN stats' /\ stats'[other] = stats[other]
    ]_vars

\* a second, failed sample of 0 folded into the average left by a first
\* sample that is not a multiple of ten: the division drops the remainder
UpdateStatsArithmeticWitness ==
    /\ lastOp.op = "UpdateStats"
    /\ lastOp.arg = 0
    /\ lastOp.out = {FALSE}
    /\ stats[lastOp.id].TotalRequests = 2
    /\ stats[lastOp.id].FailedRequests = 1
    /\ \E d \in Durations :
          /\ (d * 9) % 10 # 0
          /\ stats[lastOp.id].AvgResponseTime = (d * 9) \div 10

\* C31: in every state of the Selector each instance's total counter is
\* the sum of its success and failed counters, the three counters and the
\* active-connection count are not negative, no step removes an entry or
\* lowers one of the three counters, and a DecrementActiveConns of an
\* instance whose count is 0 leaves it 0.
StatsCountersConsistent ==
    /\ [](\A id \in DOMAIN stats :
            /\ stats[id].TotalRequests
                 = stats[id].SuccessRequests + stats[id].FailedRequests
            /\ stats[id].TotalRequests >= 0
            /\ stats[id].SuccessRequests >= 0
            /\ stats[id].FailedRequests >= 0
            /\ stats[id].ActiveConns >= 0)
    /\ [][\A id \in DOMAIN stats :
            /\ id \in DOMAIN stats'
            /\ stats'[id].TotalRequests >= stats[id].TotalRequests
            /\ stats'[id].SuccessRequests >= stats[id].SuccessRequests
            /\ stats'[id].FailedRequests >= stats[id].FailedRequests]_vars
    /\ [][(lastOp'.op = "DecrementActiveConns"
             /\ StatsOf(stats, lastOp'.id).ActiveConns = 0) =>
               /\ lastOp'.id \in DOMAIN stats'
               /\ stats'[lastOp'.id].ActiveConns = 0]_vars

\* a DecrementActiveConns left the count of an instance at 0 after
\* successes and failures were counted for it, while another instance has
\* an open connection
StatsCountersConsistentWitness ==
    /\ lastOp.op = "DecrementActiveConns"
    /\ lastOp.id \in DOMAIN stats
    /\ stats[lastOp.id].ActiveConns = 0
    /\ stats[lastOp.id].SuccessRequests > 0
    /\ stats[lastOp.id].FailedRequests > 0
    /\ \E id \in DOMAIN stats : stats[id].ActiveConns > 0

----------------------------------------------------------------------------
(* Connection accounting, checked under SpecConn and SpecReq *)

\* C15: through any sequence of paired Increment/Decrement calls, the count
\* of every instance is its count before the sequence plus its pairs still
\* open; when every pair is closed it is the count before the sequence.
ConnectionAccounting ==
    DOMAIN pairs.base = StatIDs =>
        \A id \in StatIDs :
            /\ StatsOf(stats, id).ActiveConns
                 = pairs.base[id] + Cardinality({p \in PairIDs : pairs.of[p] = id})
            /\ (\A p \in PairIDs : pairs.of[p] = "") =>
                  StatsOf(stats, id).ActiveConns = pairs.base[id]

\* the last pair was closed after a request failed, on an instance that had
\* a connection before the sequence
ConnectionAccountingWitness ==
    /\ DOMAIN pairs.base = StatIDs
    /\ \A p \in PairIDs : pairs.of[p] = ""
    /\ lastOp.op = "DecrementActiveConns"
    /\ pairs.base[lastOp.id] > 0
    /\ StatsOf(stats, lastOp.id).FailedRequests > 0
    /\ \E id \in StatIDs : id # lastOp.id /\ StatsOf(stats, id).FailedRequests > 0

\* C16: a request that incremented the count of its instance decrements it
\* exactly once before its handler exits, on every exit path; the count of
\* an instance is the number of requests in flight holding it, and 0 for
\* every instance when no request is in flight.
NoLeakedConnection ==
    requests # <<>> =>
        /\ \A r \in Reqs :
              /\ requests[r].decs <= requests[r].incs
              /\ requests[r].incs <= 1
              /\ requests[r].pc = "idle" => requests[r].decs = requests[r].incs
        /\ \A id \in StatIDs :
              StatsOf(stats, id).ActiveConns = Cardinality(Holding(requests, id))
        /\ (\A r \in Reqs : requests[r].pc = "idle") =>
              \A id \in DOMAIN stats : stats[id].ActiveConns = 0

\* no request is in flight after one handler exited by a panic and another
\* after its upstream failed
NoLeakedConnectionWitness ==
    /\ requests # <<>>
    /\ \A r \in Reqs : requests[r].pc = "idle"
    /\ \E r \in Reqs : requests[r].result = "panic" /\ requests[r].decs = 1
    /\ \E r \in Reqs : requests[r].result = "false" /\ requests[r].decs = 1

\* C17 as stated: every request for which a data node was selected produces
\* exactly one UpdateStats call, with success set exactly when the upstream
\* answered below 400 and the body was copied to the end; no request
\* produces two calls.
UpdateStatsOncePerRequest ==
    requests # <<>> =>
        \A r \in Reqs :
            /\ requests[r].upds <= 1
            /\ (requests[r].pc = "idle" /\ requests[r].node # "") =>
                  /\ requests[r].upds = 1
                  /\ requests[r].flag <=> requests[r].expected

----------------------------------------------------------------------------
(* The snapshot of GetStats, checked under SpecSnap *)

\* C18 as stated: the counters reachable from a map GetStats returned keep
\* the values they had when GetStats returned, whatever UpdateStats,
\* IncrementActiveConns and DecrementActiveConns do afterwards.
SnapshotImmutable ==
    snapshot # <<>> =>
        \A k \in DOMAIN snapshot.result :
            Deref(stats, snapshot.result[k]) = snapshot.then[k]

----------------------------------------------------------------------------
(* The lock of the stats map, checked under SpecRace *)

\* C19 as stated: a goroutine about to insert into or update the stats map
\* holds the exclusive lock, and no other goroutine is inside the lock
\* reading or writing the map at that moment.
StatsMapWritesExclusive ==
    race # <<>> =>
        \A g \in Callers :
            race.pc[g].phase \in {"insert", "update"} =>
                /\ race.writer = g
                /\ race.readers = {}
                /\ OthersInside(race, g) = {}

----------------------------------------------------------------------------
(* The Locate race, checked under SpecLocate *)

\* C20 as stated: when both data nodes hold the object, a Locate call that
\* has returned consumed at most one reply and returned the path of one of
\* the two nodes, the one whose reply was delivered first.
LocateReturnsOnePath ==
    locate # <<>> =>
        \A c \in LocateCalls :
            (/\ locate.calls[c].pc = "returned"
             /\ \A n \in Nodes : locate.calls[c].name[1] \in locate.holds[n]) =>
                /\ locate.calls[c].consumed <= 1
                /\ \E n \in Nodes :
                      /\ locate.calls[c].first = n
                      /\ locate.calls[c].result
                           = <<"/root", n, "/objects/", locate.calls[c].name[1]>>

\* C20 amended: when both data nodes hold the object, a Locate call that has
\* returned consumed at most one reply; it returned either the path of the
\* node whose reply was delivered first to its reply queue, or, when the
\* timer closed the queue before it took a reply, the empty string; what it
\* returned does not change when the other reply arrives.
LocateFirstReplyOrEmpty ==
    /\ [](locate # <<>> =>
            \A c \in LocateCalls :
              (/\ locate.calls[c].pc = "returned"
               /\ \A n \in Nodes : locate.calls[c].name[1] \in locate.holds[n]) =>
                  /\ locate.calls[c].consumed <= 1
                  /\ \/ /\ locate.calls[c].consumed = 1
                        /\ locate.calls[c].first \in Nodes
                        /\ locate.calls[c].result
                             = <<"/root", locate.calls[c].first, "/objects/",
                                 locate.calls[c].name[1]>>
                     \/ /\ locate.calls[c].consumed = 0
                        /\ locate.calls[c].closed
                        /\ locate.calls[c].result = <<>>)
    /\ [][locate # <<>> =>
             \A c \in LocateCalls :
                locate.calls[c].pc = "returned" =>
                   /\ locate'.calls[c].pc = "returned"
                   /\ locate'.calls[c].result = locate.calls[c].result
                   /\ locate'.calls[c].consumed = locate.calls[c].consumed]_vars

\* a call returned the path of B, whose reply came first; the reply of A
\* came later and stays in the queue
LocateFirstReplyOrEmptyWitness ==
    /\ locate # <<>>
    /\ \E c \in LocateCalls :
          /\ locate.calls[c].pc = "returned"
          /\ \A n \in Nodes : locate.calls[c].name[1] \in locate.holds[n]
          /\ locate.calls[c].first = "B"
          /\ locate.calls[c].result
               = <<"/root", "B", "/objects/", locate.calls[c].name[1]>>
          /\ Len(locate.calls[c].replies) = 1
          /\ locate.calls[c].replies[1].node = "A"

LocateResultIsAddress ==
    locate # <<>> =>
        \A c \in LocateCalls :
            (locate.calls[c].pc = "returned" /\ locate.calls[c].result # <<>>) =>
                \E n \in Nodes :
                    /\ locate.calls[c].name[1] \in locate.holds[n]
                    /\ locate.calls[c].result = Address(n)

----------------------------------------------------------------------------
(* The streaming object handler, checked under SpecObjects *)

\* C23 as stated: a PUT is answered 200 only after the outbound stream was
\* closed and the data node answered 200; when the outbound request fails
\* or the data node answers another status, the API server answers the PUT
\* with a status of 500 or above.
PutSuccessOnlyAfterAck ==
    (api # <<>> /\ api.req.method = "PUT") =>
        /\ (api.req.pc \in {"handler", "done"} /\ api.req.w.sent = <<StatusOK>>) =>
              /\ api.req.stream = "closed"
              /\ api.req.upstream = "answered"
              /\ api.req.status = StatusOK
        /\ (/\ api.req.pc \in {"handler", "done", "crashed"}
            /\ \/ api.req.upstream = "failed"
               \/ api.req.upstream = "answered" /\ api.req.status # StatusOK) =>
              /\ Len(api.req.w.sent) = 1
              /\ api.req.w.sent[1] >= StatusInternalServerError

\* C25: a GET whose object is not located, or whose read stream cannot be
\* opened, is answered 404: that one status line is sent and no body byte.
GetNotFoundOnce ==
    (api # <<>> /\ api.req.method = "GET") =>
        ((/\ api.req.pc \in {"handler", "done"}
          /\ api.req.server = <<>> \/ api.req.openErr) =>
            /\ api.req.w.sent = <<StatusNotFound>>
            /\ api.req.w.body = <<>>)

\* a GET of an object that was located, whose stream could not be opened:
\* the handler has returned and its trailing WriteHeader changed nothing
GetNotFoundOnceWitness ==
    /\ api # <<>>
    /\ api.req.method = "GET"
    /\ api.req.pc = "done"
    /\ api.req.server # <<>>
    /\ api.req.openErr
    /\ Len(api.req.w.codes) > 1

\* C26 as stated: a GET of a name whose PUT was answered 200 is answered
\* 200 with exactly the bytes of that PUT.
StreamingRoundTrip ==
    (api # <<>> /\ api.req.method = "GET" /\ api.req.pc = "done") =>
        (api.req.object[1] \in DOMAIN api.acked =>
            /\ api.req.w.sent = <<StatusOK>>
            /\ api.req.w.body = api.acked[api.req.object[1]])

\* C24: a request that finds no data node is answered 503 before any
\* outbound exchange. In handleObjects, a Discover("dataserver") that
\* returns no instance ends the request with 503, without a Select, with
\* the statistics, the active-connection counts and the round-robin
\* counter of the Selector unchanged; in the streaming handler, a PUT for
\* which no data server is chosen is answered 503 with no stream opened,
\* no exchange with a data node and no file changed.
NoDataNodeUnavailable ==
    /\ [][\A r \in Reqs :
            (/\ requests # <<>>
             /\ lastOp'.op = "handleObjects" /\ lastOp'.arg = "Discover"
             /\ lastOp'.id = r
             /\ DiscoverResult(services, "dataserver") = {}) =>
               /\ requests'[r].httpError = StatusServiceUnavailable
               /\ requests'[r].pc = "idle"
               /\ requests'[r].node = ""
               /\ requests'[r].result = ""
               /\ requests'[r].incs = 0 /\ requests'[r].upds = 0
               /\ stats' = stats
               /\ rrCounter' = rrCounter]_vars
    /\ [][(/\ api # <<>>
           /\ lastOp'.op = "putStream"
           /\ lastOp'.err) =>
             /\ api'.req.w.sent = <<StatusServiceUnavailable>>
             /\ api'.req.stream = "none"
             /\ api'.req.upstream = ""
             /\ api'.files = api.files]_vars
    /\ [](api # <<>> =>
            ((api.req.method = "PUT" /\ api.req.pc = "done"
                /\ api.req.server = <<>>) =>
                   /\ api.req.w.sent = <<StatusServiceUnavailable>>
                   /\ api.req.stream = "none"))

\* a request met an empty Discover while the Selector held statistics of
\* an instance, and was answered 503
NoDataNodeUnavailableWitness ==
    /\ requests # <<>>
    /\ DOMAIN stats # {}
    /\ \E r \in Reqs :
          /\ requests[r].httpError = StatusServiceUnavailable
          /\ requests[r].pc = "idle"
          /\ lastOp.op = "handleObjects" /\ lastOp.arg = "Discover"
          /\ lastOp.id = r

\* C32 as stated: the handler decides one response status per request,
\* which is the status the client receives; for a PUT or a GET it is the
\* status of the put or get path (200, 404, 500 or 503), and 405 is decided
\* only for a method that is neither PUT nor GET; a GET whose stream was
\* opened is answered 200.
HandlerOneStatus ==
    (api # <<>> /\ api.req.pc = "done") =>
        /\ Len(api.req.w.codes) = 1
        /\ api.req.w.sent = api.req.w.codes
        /\ api.req.method \in {"PUT", "GET"} =>
              api.req.w.sent[1] \in {StatusOK, StatusNotFound,
                                     StatusInternalServerError,
                                     StatusServiceUnavailable}
        /\ api.req.method \in OtherMethods =>
              api.req.w.sent = <<StatusMethodNotAllowed>>
        /\ (\E i \in DOMAIN api.req.w.codes :
                api.req.w.codes[i] = StatusMethodNotAllowed) =>
              api.req.method \in OtherMethods
        /\ (api.req.method = "GET" /\ api.req.server # <<>>
              /\ ~api.req.openErr) => api.req.w.sent = <<StatusOK>>

----------------------------------------------------------------------------
(* The heartbeat loop, checked under SpecHeartbeatLive *)

\* C28: the heartbeat loop of a data node never ends and never crashes the
\* node; after a failed connect or publish it opens the next connection
\* only after the backoff, with the failed connection closed, and never
\* holds more than one connection; a heartbeat it publishes carries its
\* address; and if the broker stays reachable from some time on, the node
\* publishes heartbeats again and again.
HeartbeatLoopSurvives ==
    /\ [](\A n \in Nodes :
            /\ heartbeat.loop[n].pc
                 \in {"connect", "publish", "sleep", "closing", "recover"}
            /\ heartbeat.loop[n].open \in {0, 1}
            /\ (heartbeat.last # <<>> /\ heartbeat.last.from = n) =>
                  Unquote(heartbeat.last.body).s = Address(n))
    /\ [][\A n \in Nodes :
            (lastOp'.op = "rabbitmq.New" /\ lastOp'.id = n) =>
                 /\ heartbeat.loop[n].open = 0
                 /\ heartbeat.loop[n].failed =>
                       heartbeat.loop[n].slept = HeartbeatBackoff]_vars
    /\ \A n \in Nodes :
          <>[](heartbeat.up) =>
             []<>(lastOp.op = "Publish" /\ lastOp.id = n /\ ~lastOp.err)

\* a node whose publish failed has closed its connection, backed off,
\* connected again and published its address
HeartbeatLoopSurvivesWitness ==
    /\ heartbeat # <<>>
    /\ \E n \in Nodes :
          /\ heartbeat.loop[n].pc = "sleep"
          /\ heartbeat.loop[n].open = 1
          /\ heartbeat.last # <<>> /\ heartbeat.last.from = n
          /\ lastOp.op = "Publish" /\ lastOp.id = n /\ ~lastOp.err
          /\ heartbeat.loop[n].failure = "publish"
          /\ ~heartbeat.loop[n].failed

(* The locate-consumer loop, checked under SpecConsumer *)

\* C29 as stated: the locate-consumer loop of a data node opens a new
\* connection after a transport failure only after it has slept the
\* backoff, however the failure showed up, and the loop never ends.
ConsumerBacksOff ==
    /\ [](\A n \in Nodes : consumer.loop[n].pc # "crashed")
    /\ [][\A n \in Nodes :
            (lastOp'.op = "rabbitmq.New" /\ lastOp'.id = n
               /\ consumer.loop[n].failed) =>
                 consumer.loop[n].slept = LocateBackoff]_vars

----------------------------------------------------------------------------
(* Publish and Bind, checked under SpecBroker *)

\* C30: a Publish or Bind declares the exchange only after a first attempt
\* that failed for a missing exchange, and then tries the operation once
\* more; the call makes at most two attempts and one declaration, and it
\* panics exactly when the declaration fails, the second attempt fails, or
\* the first attempt failed for another cause, in which case it neither
\* declares nor retries.
RetryExactlyOnce ==
    broker # <<>> =>
        LET op == broker.op
        IN  /\ op.attempts <= 2 /\ op.declares <= 1
            /\ op.declares = 1 => op.first = "missing"
            /\ op.attempts = 2 =>
                  op.first = "missing" /\ op.declares = 1 /\ ~op.declareErr
            /\ op.pc = "done" =>
                  /\ op.first = "" =>
                        op.attempts = 1 /\ op.declares = 0 /\ op.outcome = "ok"
                  /\ op.first = "other" =>
                        op.attempts = 1 /\ op.declares = 0 /\ op.outcome = "panic"
                  /\ (op.first = "missing" /\ op.declareErr) =>
                        op.attempts = 1 /\ op.declares = 1 /\ op.outcome = "panic"
                  /\ (op.first = "missing" /\ ~op.declareErr) =>
                        /\ op.attempts = 2 /\ op.declares = 1
                        /\ op.outcome = IF op.retry = "" THEN "ok" ELSE "panic"

\* a call met a missing exchange, declared it, and its one retry failed for
\* a missing exchange again: the failure was surfaced
RetryExactlyOnceWitness ==
    /\ broker # <<>>
    /\ broker.op.pc = "done"
    /\ broker.op.first = "missing"
    /\ broker.op.retry = "missing"
    /\ broker.op.attempts = 2
    /\ broker.op.outcome = "panic"

----------------------------------------------------------------------------
(* Round-robin fairness, checked under SpecRR *)

\* C11: when the N calls made so far over the stable list of size K have all
\* returned, every candidate was returned N/K times, rounded down or up; no
\* two calls in progress hold the same counter value; each call takes the
\* next counter value and returns the candidate at index value mod K.
RoundRobinFair ==
    /\ [](LET n == SumSeq(visits, 1)
              k == Len(rrList)
          IN  (k > 0 /\ \A g \in Callers : rrTaken[g] = 0) =>
                 \A i \in DOMAIN visits :
                    /\ visits[i] >= n \div k
                    /\ visits[i] <= (n \div k) + (IF n % k = 0 THEN 0 ELSE 1))
    /\ [](\A g \in Callers, h \in Callers :
             (g # h /\ rrTaken[g] # 0) => rrTaken[g] # rrTaken[h])
    /\ [][\A g \in Callers :
             /\ (rrTaken[g] = 0 /\ rrTaken'[g] # 0) =>
                    /\ rrTaken'[g] = rrCounter + 1
                    /\ rrCounter' = rrCounter + 1
             /\ (rrTaken[g] # 0 /\ rrTaken'[g] = 0) =>
                    /\ lastOp'.was = "returned"
                    /\ lastOp'.out = {rrTaken[g] % Len(rrList)}
                    /\ lastOp'.id = rrList[(rrTaken[g] % Len(rrList)) + 1]
                    /\ SumSeq(visits', 1) = SumSeq(visits, 1) + 1
         ]_vars

\* five calls over a list of three have returned, after two of them were in
\* progress at the same time
RoundRobinFairWitness ==
    /\ Len(rrList) = 3
    /\ SumSeq(visits, 1) = 5
    /\ \A g \in Callers : rrTaken[g] = 0
    /\ lastOp.op = "Select"
    /\ lastOp.out # {(rrCounter % 3)}

====
